---- MODULE Spec2Model ----
(***************************************************************************)
(* firebird_fdw: connection cache and remote transaction coordinator       *)
(* (src/src/connection.c).                                                 *)
(*                                                                         *)
(* The state is the connection hash table (one ConnCacheEntry per          *)
(* (server, user) key), the flag xact_got_connection, the physical         *)
(* connections held by the client library (libfq), and the local           *)
(* transaction manager's nesting level.  Every function of connection.c    *)
(* is one operator; the actions are the entry points PostgreSQL calls.     *)
(*                                                                         *)
(* The client library is outside the repository.  It is modelled by the    *)
(* FQ... operators: a statement on a connection either takes effect or     *)
(* fails without effect; which of the two is an input of the action (the   *)
(* oracle), except that a statement on a lost connection, a savepoint      *)
(* statement outside a transaction and a RELEASE / ROLLBACK TO of a        *)
(* savepoint that does not exist always fail.                              *)
(***************************************************************************)
EXTENDS Integers, Sequences, FiniteSets, TLC

\* the deepest local nesting level the transaction manager is driven to
MaxLevel == 2

\* ConnCacheKey: the (server, user) pairs in use.  Two, so that the scans of
\* the callbacks meet one entry before another.
Keys == {1, 2}
NumKeys == Cardinality(Keys)
\* FBconn pointers.  At most one per entry is live, plus the new one a
\* reconnect holds before it frees the old one.  A freed pointer is reused.
Handles == 1..(NumKeys + 1)
NULL == 0

VARIABLES
    ConnectionHash,       \* FALSE: the static HTAB pointer is still NULL
    cache,                \* key -> ConnCacheEntry (found = FALSE: no entry)
    xact_got_connection,  \* static bool xact_got_connection
    conns,                \* handle -> state of the physical connection
    level,                \* GetCurrentTransactionNestLevel(); 0 = idle
    failed,               \* an ERROR was raised: the (sub)transaction must abort
    backend,              \* "running" or "exited" (proc_exit has run exitHook)
    last                  \* what the last entry point did (observation only)

\* The planning of one scan of a foreign table (convert.c, firebird_fdw.c).
VARIABLES
    baserestrictinfo,     \* baserel->baserestrictinfo: the restriction clauses
    fdw_state,            \* FirebirdFdwState: firebird_version, the options,
                          \* remote_conds and local_conds
    column_options,       \* the column option implicit_bool_type of column B1
    plan,                 \* how far the planning of the scan has come
    sql                   \* the outcome of buildWhereClause

\* the state of the connection cache and of the local transaction
cachevars == <<ConnectionHash, cache, xact_got_connection, conns, level, failed, backend, last>>

\* the state of the planner
planner == <<baserestrictinfo, fdw_state, column_options, plan, sql>>

\* rel: the foreign table's attributes and triggers; attrs_used: the attribute
\* numbers a statement refers to; tlist: the target list built for it
VARIABLES rel, attrs_used, tlist

targets == <<rel, attrs_used, tlist>>

vars == <<cachevars, planner, targets>>

Min(S) == CHOOSE x \in S : \A y \in S : x <= y

\* no scan is being planned
NoFdwState ==
    [firebird_version |-> 0, implicit_bool_type |-> FALSE, disable_pushdowns |-> FALSE,
     remote_conds |-> <<>>, local_conds |-> <<>>]

\* buildWhereClause has not run
NoSql == [st |-> "none", text |-> <<>>]

\* no relation is open and no target list has been built
NoRel == [attisdropped |-> <<>>, trig_insert_after_row |-> FALSE]
NoTlist == [kind |-> "none", buf |-> <<>>, retrieved_attrs |-> <<>>, db_key_used |-> FALSE]

----------------------------------------------------------------------------
(* ConnCacheEntry and the physical connection                              *)

NoEntry == [found |-> FALSE, conn |-> NULL, xact_depth |-> 0, have_error |-> FALSE]

NewEntry == [found |-> TRUE, conn |-> NULL, xact_depth |-> 0, have_error |-> FALSE]

FreeConn == [st |-> "free", trans |-> FALSE, sp |-> <<>>]

NewConn == [st |-> "ok", trans |-> FALSE, sp |-> <<>>]

\* One line of what an entry point did: a call into the client library or a
\* message to the client.
Stmt(k, h, s, n, ok) == [key |-> k, conn |-> h, stmt |-> s, n |-> n, ok |-> ok]

NoLast ==
    [op |-> "none", key |-> 0, level |-> 0, verbose |-> FALSE, err |-> "none",
     ret |-> NULL, reported |-> -1, log |-> <<>>]

----------------------------------------------------------------------------
(* The client library (opaque driver)                                      *)

FQstatusOK(cs, h) == cs[h].st = "ok"

FQisActiveTransaction(cs, h) == cs[h].trans

\* the savepoint stack without savepoint n
SpWithout(sp, n) == SelectSeq(sp, LAMBDA x : x # n)

\* position of savepoint n in the stack, 0 when it is not there
SpPos(sp, n) ==
    IF \E i \in 1..Len(sp) : sp[i] = n
    THEN CHOOSE i \in 1..Len(sp) : sp[i] = n
    ELSE 0

\* can statement s (about savepoint n) take effect on connection h
Feasible(cs, h, s, n) ==
    /\ cs[h].st = "ok"
    /\ CASE s = "SET TRANSACTION SNAPSHOT" -> TRUE
         [] s = "SAVEPOINT" -> cs[h].trans
         [] s = "RELEASE SAVEPOINT" -> cs[h].trans /\ SpPos(cs[h].sp, n) > 0
         [] s = "ROLLBACK TO SAVEPOINT" -> cs[h].trans /\ SpPos(cs[h].sp, n) > 0
         [] s = "COMMIT" -> cs[h].trans
         [] s = "ROLLBACK" -> cs[h].trans
         [] OTHER -> FALSE

\* the results the statement may have: TRUE = it took effect
May(cs, h, s, n) == IF Feasible(cs, h, s, n) THEN {TRUE, FALSE} ELSE {FALSE}

\* the connection after statement s took effect
Effect(c, s, n) ==
    CASE s = "SET TRANSACTION SNAPSHOT" -> [c EXCEPT !.trans = TRUE, !.sp = <<>>]
      [] s = "SAVEPOINT" -> [c EXCEPT !.sp = Append(SpWithout(c.sp, n), n)]
      [] s = "RELEASE SAVEPOINT" -> [c EXCEPT !.sp = SubSeq(c.sp, 1, SpPos(c.sp, n) - 1)]
      [] s = "ROLLBACK TO SAVEPOINT" -> [c EXCEPT !.sp = SubSeq(c.sp, 1, SpPos(c.sp, n))]
      [] s = "COMMIT" -> [c EXCEPT !.trans = FALSE, !.sp = <<>>]
      [] s = "ROLLBACK" -> [c EXCEPT !.trans = FALSE, !.sp = <<>>]
      [] OTHER -> c

\* FQexec / FQcommitTransaction with result ok: the connections afterwards
FQexec(cs, h, s, n, ok) ==
    IF ok THEN [cs EXCEPT ![h] = Effect(cs[h], s, n)] ELSE cs

FQfinish(cs, h) == [cs EXCEPT ![h] = FreeConn]

\* FQconnectdbParams: the results a connection attempt may have
\* (the FBconn of a failed attempt is never stored, so it is not tracked)
FQconnectdbParams(cs) ==
    LET h == Min({x \in Handles : cs[x].st = "free"})
    IN  {[conns |-> [cs EXCEPT ![h] = NewConn], conn |-> h, ok |-> TRUE],
         [conns |-> cs, conn |-> h, ok |-> FALSE]}

----------------------------------------------------------------------------
(* Each function of connection.c is an operator that yields the set of     *)
(* outcomes the call may have, one per combination of the results of the   *)
(* statements it issues: [entry or cache, conns, log, err].  err # "none"  *)
(* is an ereport(ERROR), which leaves the function at once.                *)

\* firebirdGetConnection without the check of the connection status: the
\* handle of the failed attempt is handed back as if it were connected
firebirdGetConnection_nocheck(g) ==
    IF g.ok
    THEN [conns |-> g.conns, conn |-> g.conn, err |-> "none"]
    ELSE [conns |-> [g.conns EXCEPT ![g.conn] = [NewConn EXCEPT !.st = "bad"]],
          conn |-> g.conn, err |-> "none"]

(* firebirdGetConnection: the status check after FQconnectdbParams raises  *)
(* ERROR unless the connection is CONNECTION_OK.                           *)
firebirdGetConnection(g) ==
    IF g.ok
    THEN [conns |-> g.conns, conn |-> g.conn, err |-> "none"]
    ELSE [conns |-> g.conns, conn |-> NULL, err |-> "connect"]

(* fb_begin_remote_xact: the while loop that stacks savepoints             *)
RECURSIVE StackSavepoints(_, _, _, _, _)
StackSavepoints(entry, cs, k, curlevel, log) ==
    IF entry.xact_depth < curlevel
    THEN LET n == entry.xact_depth + 1
         IN  UNION {StackSavepoints([entry EXCEPT !.xact_depth = n],
                                    FQexec(cs, entry.conn, "SAVEPOINT", n, ok),
                                    k, curlevel,
                                    Append(log, Stmt(k, entry.conn, "SAVEPOINT", n, ok)))
                    : ok \in May(cs, entry.conn, "SAVEPOINT", n)}
    ELSE {[entry |-> entry, conns |-> cs, log |-> log, err |-> "none"]}

\* the main transaction is started when xact_depth <= 0
NeedsBegin(entry) == entry.xact_depth <= 0

fb_begin_remote_xact(entry, cs, k, curlevel, log) ==
    IF NeedsBegin(entry)
    THEN UNION {LET log1 == Append(log, Stmt(k, entry.conn, "SET TRANSACTION SNAPSHOT", 0, ok))
                IN  IF ~ok
                    THEN {[entry |-> entry, conns |-> cs, log |-> log1, err |-> "begin"]}
                    ELSE StackSavepoints(
                             [entry EXCEPT !.xact_depth = 1],
                             FQexec(cs, entry.conn, "SET TRANSACTION SNAPSHOT", 0, ok),
                             k, curlevel, log1)
                : ok \in May(cs, entry.conn, "SET TRANSACTION SNAPSHOT", 0)}
    ELSE StackSavepoints(entry, cs, k, curlevel, log)

(* firebirdInstantiateConnection, the branch entry->conn == NULL           *)
ConnectFirst(e0, cs, k, curlevel) ==
    LET e1 == [e0 EXCEPT !.xact_depth = 0, !.have_error = FALSE]
    IN  UNION {LET g == firebirdGetConnection(a)
                   log1 == <<Stmt(k, a.conn, "connect_from_options", 0, a.ok)>>
               IN  IF g.err # "none"
                   THEN {[entry |-> e1, conns |-> g.conns, log |-> log1, err |-> g.err]}
                   ELSE fb_begin_remote_xact([e1 EXCEPT !.conn = g.conn], g.conns,
                                             k, curlevel, log1)
               : a \in FQconnectdbParams(cs)}

(* firebirdInstantiateConnection, the branch FQstatus(entry->conn) ==      *)
(* CONNECTION_BAD: FQreconnect (its result is overwritten and never used), *)
(* the WARNING, firebirdGetConnection with the old handle's parameters,    *)
(* FQfinish of the old handle, the NOTICE.                                 *)
Reconnect(e0, cs, k, curlevel) ==
    LET log0 == <<Stmt(k, e0.conn, "FQreconnect", e0.conn, TRUE),
                  Stmt(k, e0.conn, "WARNING connection has gone away", 0, TRUE)>>
    IN  UNION {LET g == firebirdGetConnection(a)
                   log1 == Append(log0, Stmt(k, a.conn, "connect_from_handle", e0.conn, a.ok))
               IN  IF g.err # "none"
                   THEN {[entry |-> e0, conns |-> g.conns, log |-> log1, err |-> g.err]}
                   ELSE fb_begin_remote_xact(
                            [e0 EXCEPT !.conn = g.conn], FQfinish(g.conns, e0.conn),
                            k, curlevel,
                            log1 \o <<Stmt(k, e0.conn, "FQfinish", 0, g.conns[e0.conn].st # "free"),
                                      Stmt(k, g.conn, "NOTICE reconnected", 0, TRUE)>>)
               : a \in FQconnectdbParams(cs)}

\* firebirdInstantiateConnection connecting anew whatever the entry holds
firebirdInstantiateConnection_fresh(c, cs, k, curlevel) ==
    ConnectFirst(IF c[k].found THEN c[k] ELSE NewEntry, cs, k, curlevel)

(* firebirdInstantiateConnection                                           *)
firebirdInstantiateConnection(c, cs, k, curlevel) ==
    LET e0 == IF c[k].found THEN c[k] ELSE NewEntry
    IN  IF e0.conn = NULL
        THEN ConnectFirst(e0, cs, k, curlevel)
        ELSE IF ~FQstatusOK(cs, e0.conn)
             THEN Reconnect(e0, cs, k, curlevel)
             ELSE fb_begin_remote_xact(e0, cs, k, curlevel, <<>>)

\* A query of the local transaction asks for the connection of key k.
Acquire(k) ==
    /\ backend = "running" /\ level >= 1 /\ ~failed
    /\ \E r \in firebirdInstantiateConnection(cache, conns, k, level) :
          /\ ConnectionHash' = TRUE
          /\ xact_got_connection' = TRUE
          /\ cache' = [cache EXCEPT ![k] = r.entry]
          /\ conns' = r.conns
          /\ failed' = (r.err # "none")
          /\ last' = [NoLast EXCEPT !.op = "acquire", !.key = k, !.level = level,
                                    !.err = r.err, !.log = r.log,
                                    !.ret = IF r.err = "none" THEN r.entry.conn ELSE NULL]
    /\ UNCHANGED <<level, backend, planner, targets>>

----------------------------------------------------------------------------
(* fb_xact_callback.  hash_seq_search visits the entries in the table's    *)
(* order; the keys are interchangeable, so the scan goes by ascending key. *)

\* the loop passing over the entries without a connection only
XactSkips_connonly(e, cs) == e.conn = NULL

\* the entries the loop passes over: no connection, no open transaction,
\* or FQisActiveTransaction false
XactSkips(e, cs) ==
    \/ e.conn = NULL
    \/ e.xact_depth = 0
    \/ ~FQisActiveTransaction(cs, e.conn)

\* the end of the loop body without the reset of xact_depth
XactReset_keep(e) == e

\* "Reset state to show we're out of a transaction"
XactReset(e) == [e EXCEPT !.xact_depth = 0]

RECURSIVE XactScan(_, _, _, _, _)
XactScan(event, k, c, cs, log) ==
    IF k > NumKeys
    THEN {[cache |-> c, conns |-> cs, log |-> log, err |-> "none"]}
    ELSE IF ~c[k].found \/ XactSkips(c[k], cs)
    THEN XactScan(event, k + 1, c, cs, log)
    ELSE LET h == c[k].conn
             reset == [c EXCEPT ![k] = XactReset(@)]
         IN  CASE event = "PRE_COMMIT" ->
                    UNION {LET log1 == Append(log, Stmt(k, h, "COMMIT", 0, ok))
                           IN  IF ~ok
                               THEN {[cache |-> c, conns |-> cs, log |-> log1,
                                      err |-> "commit"]}
                               ELSE XactScan(event, k + 1, reset,
                                             FQexec(cs, h, "COMMIT", 0, ok), log1)
                           : ok \in May(cs, h, "COMMIT", 0)}
               [] event = "PRE_PREPARE" ->
                    XactScan(event, k + 1, reset, cs, log)
               [] event \in {"COMMIT", "PREPARE"} ->
                    {[cache |-> c, conns |-> cs, log |-> log, err |-> "missed_precommit"]}
               [] event = "ABORT" ->
                    UNION {XactScan(event, k + 1, reset,
                                    FQexec(cs, h, "ROLLBACK", 0, ok),
                                    Append(log, Stmt(k, h, "ROLLBACK", 0, ok)))
                           : ok \in May(cs, h, "ROLLBACK", 0)}
               [] OTHER ->
                    XactScan(event, k + 1, reset, cs, log)

\* an ERROR leaves xact_got_connection set
\* fb_xact_callback returning without the reset of xact_got_connection
fb_xact_callback_keepflag(event, c, cs, flag) ==
    IF ~flag
    THEN {[cache |-> c, conns |-> cs, flag |-> flag, log |-> <<>>, err |-> "none"]}
    ELSE {[cache |-> r.cache, conns |-> r.conns, log |-> r.log, err |-> r.err,
           flag |-> flag] : r \in XactScan(event, 1, c, cs, <<>>)}

fb_xact_callback(event, c, cs, flag) ==
    IF ~flag
    THEN {[cache |-> c, conns |-> cs, flag |-> flag, log |-> <<>>, err |-> "none"]}
    ELSE {[cache |-> r.cache, conns |-> r.conns, log |-> r.log, err |-> r.err,
           flag |-> (r.err # "none")] : r \in XactScan(event, 1, c, cs, <<>>)}

----------------------------------------------------------------------------
(* fb_subxact_callback                                                     *)

\* the skip test taken one level too low
SubxactSkips_below(e, curlevel) == e.conn = NULL \/ e.xact_depth < curlevel - 1

\* the entries the loop passes over: no connection, or not part of the
\* subtransaction at curlevel
SubxactSkips(e, curlevel) == e.conn = NULL \/ e.xact_depth < curlevel

\* "missed cleaning up remote subtransaction"
SubxactMissed(e, curlevel) == e.xact_depth > curlevel

\* the subtransaction commit releasing the savepoint of the enclosing level
SubxactCommitEntry_outer(k, h, cs, curlevel, log) ==
    {[conns |-> FQexec(cs, h, "RELEASE SAVEPOINT", curlevel - 1, ok),
      log |-> Append(log, Stmt(k, h, "RELEASE SAVEPOINT", curlevel - 1, ok))]
     : ok \in May(cs, h, "RELEASE SAVEPOINT", curlevel - 1)}

\* the branch SUBXACT_EVENT_PRE_COMMIT_SUB: RELEASE SAVEPOINT, result unchecked
SubxactCommitEntry(k, h, cs, curlevel, log) ==
    {[conns |-> FQexec(cs, h, "RELEASE SAVEPOINT", curlevel, ok),
      log |-> Append(log, Stmt(k, h, "RELEASE SAVEPOINT", curlevel, ok))]
     : ok \in May(cs, h, "RELEASE SAVEPOINT", curlevel)}

\* the subtransaction abort issuing RELEASE SAVEPOINT whatever the outcome
\* of ROLLBACK TO SAVEPOINT
SubxactAbortEntry_always(k, h, cs, curlevel, log) ==
    UNION {LET cs1 == FQexec(cs, h, "ROLLBACK TO SAVEPOINT", curlevel, okb)
               log1 == Append(log, Stmt(k, h, "ROLLBACK TO SAVEPOINT", curlevel, okb))
               log2 == IF okb THEN log1
                       ELSE Append(log1, Stmt(k, h, "WARNING unable to execute",
                                              curlevel, TRUE))
           IN  {[conns |-> FQexec(cs1, h, "RELEASE SAVEPOINT", curlevel, okl),
                 log |-> LET log3 == Append(log2, Stmt(k, h, "RELEASE SAVEPOINT",
                                                       curlevel, okl))
                         IN  IF okl THEN log3
                             ELSE Append(log3, Stmt(k, h, "WARNING unable to execute",
                                                    curlevel, TRUE))]
                : okl \in May(cs1, h, "RELEASE SAVEPOINT", curlevel)}
           : okb \in May(cs, h, "ROLLBACK TO SAVEPOINT", curlevel)}

\* the else branch (SUBXACT_EVENT_ABORT_SUB): ROLLBACK TO SAVEPOINT, then
\* RELEASE SAVEPOINT when the rollback succeeded
SubxactAbortEntry(k, h, cs, curlevel, log) ==
    UNION {LET cs1 == FQexec(cs, h, "ROLLBACK TO SAVEPOINT", curlevel, okb)
               log1 == Append(log, Stmt(k, h, "ROLLBACK TO SAVEPOINT", curlevel, okb))
           IN  IF ~okb
               THEN {[conns |-> cs1,
                      log |-> Append(log1, Stmt(k, h, "WARNING unable to execute",
                                                curlevel, TRUE))]}
               ELSE {[conns |-> FQexec(cs1, h, "RELEASE SAVEPOINT", curlevel, okl),
                      log |-> LET log2 == Append(log1, Stmt(k, h, "RELEASE SAVEPOINT",
                                                            curlevel, okl))
                              IN  IF okl THEN log2
                                  ELSE Append(log2, Stmt(k, h, "WARNING unable to execute",
                                                         curlevel, TRUE))]
                     : okl \in May(cs1, h, "RELEASE SAVEPOINT", curlevel)}
           : okb \in May(cs, h, "ROLLBACK TO SAVEPOINT", curlevel)}

\* leaving the level with xact_depth decremented on commit only
SubxactLeave_commitonly(e, event) ==
    IF event = "ABORT_SUB"
    THEN [e EXCEPT !.have_error = TRUE]
    ELSE [e EXCEPT !.xact_depth = @ - 1]

\* the entry when the loop leaves the subtransaction level
SubxactLeave(e, event) ==
    [e EXCEPT !.have_error = IF event = "ABORT_SUB" THEN TRUE ELSE @,
              !.xact_depth = @ - 1]

RECURSIVE SubxactScan(_, _, _, _, _, _)
SubxactScan(event, curlevel, k, c, cs, log) ==
    IF k > NumKeys
    THEN {[cache |-> c, conns |-> cs, log |-> log, err |-> "none"]}
    ELSE IF ~c[k].found \/ SubxactSkips(c[k], curlevel)
    THEN SubxactScan(event, curlevel, k + 1, c, cs, log)
    ELSE IF SubxactMissed(c[k], curlevel)
    THEN {[cache |-> c, conns |-> cs, log |-> log, err |-> "missed_subxact"]}
    ELSE UNION {SubxactScan(event, curlevel, k + 1,
                            [c EXCEPT ![k] = SubxactLeave(@, event)], r.conns, r.log)
                : r \in IF event = "PRE_COMMIT_SUB"
                        THEN SubxactCommitEntry(k, c[k].conn, cs, curlevel, log)
                        ELSE SubxactAbortEntry(k, c[k].conn, cs, curlevel, log)}

fb_subxact_callback(event, curlevel, c, cs, flag) ==
    IF ~(event = "PRE_COMMIT_SUB" \/ event = "ABORT_SUB") \/ ~flag
    THEN {[cache |-> c, conns |-> cs, log |-> <<>>, err |-> "none"]}
    ELSE SubxactScan(event, curlevel, 1, c, cs, <<>>)

----------------------------------------------------------------------------
(* firebirdCloseConnections and firebirdCachedConnectionsCount             *)

firebirdCachedConnectionsCount(hash, c) ==
    IF hash THEN Cardinality({k \in Keys : c[k].found /\ c[k].conn # NULL}) ELSE 0

\* closing the handle without clearing it in the entry
CloseEntry_keep(e) == e

\* the loop body for an entry with a connection
CloseEntry(e) == [e EXCEPT !.conn = NULL]

RECURSIVE CloseScan(_, _, _, _, _)
CloseScan(k, c, cs, closed, log) ==
    IF k > NumKeys
    THEN [cache |-> c, conns |-> cs, closed |-> closed, log |-> log]
    ELSE IF ~c[k].found \/ c[k].conn = NULL
    THEN CloseScan(k + 1, c, cs, closed, log)
    ELSE CloseScan(k + 1, [c EXCEPT ![k] = CloseEntry(@)], FQfinish(cs, c[k].conn),
                   closed + 1,
                   Append(log, Stmt(k, c[k].conn, "FQfinish", 0, cs[c[k].conn].st # "free")))

\* reported = -1: no NOTICE
firebirdCloseConnections(hash, c, cs, verbose) ==
    IF ~hash
    THEN [cache |-> c, conns |-> cs, reported |-> -1, log |-> <<>>]
    ELSE LET r == CloseScan(1, c, cs, 0, <<>>)
         IN  [cache |-> r.cache, conns |-> r.conns, log |-> r.log,
              reported |-> IF verbose THEN r.closed ELSE -1]

----------------------------------------------------------------------------
(* The entry points, as the local transaction manager and the SQL          *)
(* functions call them                                                     *)

\* StartTransaction: no callback is involved
StartTransaction ==
    /\ backend = "running" /\ level = 0
    /\ level' = 1
    /\ failed' = FALSE
    /\ last' = NoLast
    /\ UNCHANGED <<ConnectionHash, cache, xact_got_connection, conns, backend, planner, targets>>

\* StartSubTransaction: SUBXACT_EVENT_START_SUB reaches fb_subxact_callback
StartSubTransaction ==
    /\ backend = "running" /\ level >= 1 /\ level < MaxLevel /\ ~failed
    /\ \E r \in fb_subxact_callback("START_SUB", level + 1, cache, conns, xact_got_connection) :
              /\ cache' = r.cache
              /\ conns' = r.conns
              /\ last' = [NoLast EXCEPT !.op = "substart", !.level = level + 1,
                                        !.err = r.err, !.log = r.log]
    /\ level' = level + 1
    /\ UNCHANGED <<ConnectionHash, xact_got_connection, failed, backend, planner, targets>>

\* CommitSubTransaction: SUBXACT_EVENT_PRE_COMMIT_SUB at the current level;
\* an ERROR of the callback leaves the subtransaction to be aborted
CommitSubTransaction ==
    /\ backend = "running" /\ level >= 2 /\ ~failed
    /\ \E r \in fb_subxact_callback("PRE_COMMIT_SUB", level, cache, conns, xact_got_connection) :
              /\ cache' = r.cache
              /\ conns' = r.conns
              /\ failed' = (r.err # "none")
              /\ level' = IF r.err = "none" THEN level - 1 ELSE level
              /\ last' = [NoLast EXCEPT !.op = "subcommit", !.level = level,
                                        !.err = r.err, !.log = r.log]
    /\ UNCHANGED <<ConnectionHash, xact_got_connection, backend, planner, targets>>

\* AbortSubTransaction: SUBXACT_EVENT_ABORT_SUB at the current level, after
\* an ERROR or on ROLLBACK TO SAVEPOINT
AbortSubTransaction ==
    /\ backend = "running" /\ level >= 2
    /\ \E r \in fb_subxact_callback("ABORT_SUB", level, cache, conns, xact_got_connection) :
              /\ cache' = r.cache
              /\ conns' = r.conns
              /\ failed' = (r.err # "none")
              /\ last' = [NoLast EXCEPT !.op = "subabort", !.level = level,
                                        !.err = r.err, !.log = r.log]
    /\ level' = level - 1
    /\ UNCHANGED <<ConnectionHash, xact_got_connection, backend, planner, targets>>

\* one XactEvent after another: the second callback runs when the first
\* raised no ERROR
XactEvents(first, second, c, cs, flag) ==
    UNION {IF r1.err # "none"
           THEN {r1}
           ELSE {[r2 EXCEPT !.log = r1.log \o @]
                 : r2 \in fb_xact_callback(second, r1.cache, r1.conns, r1.flag)}
           : r1 \in fb_xact_callback(first, c, cs, flag)}

\* CommitTransaction: XACT_EVENT_PRE_COMMIT and, when that raised no ERROR,
\* XACT_EVENT_COMMIT
CommitTransaction ==
    /\ backend = "running" /\ level = 1 /\ ~failed
    /\ \E r \in XactEvents("PRE_COMMIT", "COMMIT", cache, conns, xact_got_connection) :
          /\ cache' = r.cache
          /\ conns' = r.conns
          /\ xact_got_connection' = r.flag
          /\ failed' = (r.err # "none")
          /\ level' = IF r.err = "none" THEN 0 ELSE level
          /\ last' = [NoLast EXCEPT !.op = "precommit", !.level = level, !.err = r.err,
                                    !.log = r.log]
    /\ UNCHANGED <<ConnectionHash, backend, planner, targets>>

\* PrepareTransaction: XACT_EVENT_PRE_PREPARE, then XACT_EVENT_PREPARE
PrepareTransaction ==
    /\ backend = "running" /\ level = 1 /\ ~failed
    /\ \E r \in XactEvents("PRE_PREPARE", "PREPARE", cache, conns, xact_got_connection) :
          /\ cache' = r.cache
          /\ conns' = r.conns
          /\ xact_got_connection' = r.flag
          /\ failed' = (r.err # "none")
          /\ level' = IF r.err = "none" THEN 0 ELSE level
          /\ last' = [NoLast EXCEPT !.op = "preprepare", !.level = level, !.err = r.err,
                                    !.log = r.log]
    /\ UNCHANGED <<ConnectionHash, backend, planner, targets>>

\* AbortTransaction: XACT_EVENT_ABORT, after an ERROR or on ROLLBACK
AbortTransaction ==
    /\ backend = "running" /\ level = 1
    /\ \E r \in fb_xact_callback("ABORT", cache, conns, xact_got_connection) :
          /\ cache' = r.cache
          /\ conns' = r.conns
          /\ xact_got_connection' = r.flag
          /\ last' = [NoLast EXCEPT !.op = "abort", !.level = level, !.err = r.err,
                                    !.log = r.log]
    /\ level' = 0
    /\ failed' = FALSE
    /\ UNCHANGED <<ConnectionHash, backend, planner, targets>>

\* firebird_fdw_close_connections(): the SQL function, inside a transaction
CloseConnections ==
    /\ backend = "running" /\ level >= 1 /\ ~failed
    /\ LET r == firebirdCloseConnections(ConnectionHash, cache, conns, TRUE)
       IN  /\ cache' = r.cache
           /\ conns' = r.conns
           /\ last' = [NoLast EXCEPT !.op = "closeall", !.level = level, !.verbose = TRUE,
                                     !.reported = r.reported, !.log = r.log]
    /\ UNCHANGED <<ConnectionHash, xact_got_connection, level, failed, backend, planner, targets>>

\* exitHook(): the backend exits outside a transaction
ProcExit ==
    /\ backend = "running" /\ level = 0
    /\ LET r == firebirdCloseConnections(ConnectionHash, cache, conns, FALSE)
       IN  /\ cache' = r.cache
           /\ conns' = r.conns
           /\ last' = [NoLast EXCEPT !.op = "closeall", !.level = level, !.verbose = FALSE,
                                     !.reported = r.reported, !.log = r.log]
    /\ backend' = "exited"
    /\ UNCHANGED <<ConnectionHash, xact_got_connection, level, failed, planner, targets>>

\* The network or the remote server drops a connection: FQstatus turns
\* CONNECTION_BAD.  The client library's transaction handle stays as it is.
ConnectionLost(h) ==
    /\ backend = "running"
    /\ conns[h].st = "ok"
    /\ conns' = [conns EXCEPT ![h].st = "bad"]
    /\ last' = NoLast
    /\ UNCHANGED <<ConnectionHash, cache, xact_got_connection, level, failed, backend, planner, targets>>

----------------------------------------------------------------------------
\* a backend that has not yet touched the cache
CacheInit ==
    /\ ConnectionHash = FALSE
    /\ cache = [k \in Keys |-> NoEntry]
    /\ xact_got_connection = FALSE
    /\ conns = [h \in Handles |-> FreeConn]
    /\ level = 0
    /\ failed = FALSE
    /\ backend = "running"
    /\ last = NoLast

Init ==
    /\ CacheInit
    /\ baserestrictinfo = <<>>
    /\ fdw_state = NoFdwState
    /\ column_options = [implicit_bool_type |-> FALSE]
    /\ plan = "none"
    /\ sql = NoSql
    /\ rel = NoRel
    /\ attrs_used = {}
    /\ tlist = NoTlist

Next ==
    \/ \E k \in Keys : Acquire(k)
    \/ StartTransaction
    \/ StartSubTransaction
    \/ CommitSubTransaction
    \/ AbortSubTransaction
    \/ CommitTransaction
    \/ PrepareTransaction
    \/ AbortTransaction
    \/ CloseConnections
    \/ ProcExit
    \/ \E h \in Handles : ConnectionLost(h)

Spec == Init /\ [][Next]_vars

----------------------------------------------------------------------------
(* What the properties read from a step                                    *)

\* the lines of the log about key k with statement s
Lines(log, k, s) == {i \in 1..Len(log) : log[i].key = k /\ log[i].stmt = s}

\* how many times statement s was issued for key k
Issued(log, k, s) == Cardinality(Lines(log, k, s))

\* the lines of the log about key k, whatever the statement
LinesOf(log, k) == {i \in 1..Len(log) : log[i].key = k}

Live(c, k) == c[k].found /\ c[k].conn # NULL

Max2(a, b) == IF a >= b THEN a ELSE b

----------------------------------------------------------------------------
(* C1 *)

\* C1: whenever acquire returns a connection at local nesting level N, the
\* connection returned has an open remote transaction with exactly the
\* savepoints s2..sN stacked on it, and the entry's xact_depth is N.
C1_AcquireMirrorsLevel ==
    (last.op = "acquire" /\ last.err = "none") =>
        /\ last.ret # NULL
        /\ conns[last.ret].trans
        /\ conns[last.ret].sp = [i \in 1..(last.level - 1) |-> i + 1]
        /\ cache[last.key].xact_depth = last.level

----------------------------------------------------------------------------
(* C2 *)

\* the depth fb_begin_remote_xact starts to stack savepoints from
StartDepth(e) == IF e.conn = NULL THEN 1 ELSE Max2(e.xact_depth, 1)

\* The sum over a sequence of steps of (SAVEPOINT issued - RELEASE SAVEPOINT
\* issued) equals xact_depth - 1 exactly when every step changes both by the
\* same amount; ended(k) is what the step counts as released.
C2_Step(k, ended) ==
    /\ (last'.op = "acquire" /\ last'.key = k /\ last'.err = "none") =>
          /\ cache'[k].xact_depth = last'.level
          /\ Issued(last'.log, k, "SAVEPOINT") - ended
                = cache'[k].xact_depth - StartDepth(cache[k])
    /\ (last'.op \in {"subcommit", "subabort"} /\ last'.err = "none"
        /\ xact_got_connection /\ Live(cache, k)) =>
          /\ cache'[k].xact_depth =
                IF cache[k].xact_depth >= last'.level THEN last'.level - 1
                ELSE cache[k].xact_depth
          /\ Issued(last'.log, k, "SAVEPOINT") - ended
                = cache'[k].xact_depth - cache[k].xact_depth

\* C2 as claimed: after every ensure_open, subtransaction pre-commit and
\* subtransaction abort, xact_depth is the net local nesting depth, and the
\* SAVEPOINT statements issued minus the RELEASE SAVEPOINT statements issued
\* equal xact_depth - 1, whether or not the statements succeed.
C2_PushedMinusReleased ==
    [][\A k \in Keys : C2_Step(k, Issued(last'.log, k, "RELEASE SAVEPOINT"))]_vars

\* the ROLLBACK TO SAVEPOINT statements of key k that failed
FailedRollbackTo(log, k) ==
    Cardinality({i \in Lines(log, k, "ROLLBACK TO SAVEPOINT") : ~log[i].ok})

\* C2 amended: xact_depth is the net local nesting depth after every step,
\* and the SAVEPOINT statements issued minus the RELEASE SAVEPOINT statements
\* issued exceed xact_depth - 1 by the number of subtransaction aborts whose
\* ROLLBACK TO SAVEPOINT failed (such an abort issues no RELEASE SAVEPOINT).
C2_DepthFollowsNesting ==
    [][\A k \in Keys :
          C2_Step(k, Issued(last'.log, k, "RELEASE SAVEPOINT")
                     + FailedRollbackTo(last'.log, k))]_vars

\* a subtransaction abort whose ROLLBACK TO SAVEPOINT failed on a savepoint
\* that exists: no RELEASE SAVEPOINT follows, xact_depth is decremented
C2_Witness ==
    /\ last.op = "subabort"
    /\ \E k \in Keys :
          /\ FailedRollbackTo(last.log, k) = 1
          /\ Issued(last.log, k, "RELEASE SAVEPOINT") = 0
          /\ cache[k].xact_depth = last.level - 1
          /\ SpPos(conns[cache[k].conn].sp, last.level) > 0

----------------------------------------------------------------------------
(* C3 *)

\* the COMMIT statements of the log that failed
FailedCommits(log) == {i \in 1..Len(log) : log[i].stmt = "COMMIT" /\ ~log[i].ok}

Committable(k) ==
    /\ Live(cache, k)
    /\ cache[k].xact_depth >= 1
    /\ FQisActiveTransaction(conns, cache[k].conn)

----------------------------------------------------------------------------
(* C4 *)

\* C4: at abort after an acquire in the transaction, a ROLLBACK is attempted
\* on every entry with a live handle and xact_depth >= 1, no error is raised,
\* and afterwards every entry with a live handle has xact_depth 0.
C4_AbortRollsBackEveryEntry ==
    [][(last'.op = "abort" /\ xact_got_connection) =>
          /\ \A k \in Keys :
                (Live(cache, k) /\ cache[k].xact_depth >= 1) =>
                    Issued(last'.log, k, "ROLLBACK") >= 1
          /\ last'.err = "none"
          /\ level' = 0
          /\ \A k \in Keys : Live(cache', k) => cache'[k].xact_depth = 0]_vars

----------------------------------------------------------------------------
(* C5 *)

\* the entries a subtransaction abort at the level of the step acts on
InSubxact(k) == Live(cache, k) /\ cache[k].xact_depth >= last'.level

\* C5 as claimed: at subtransaction abort at level L every entry with a live
\* handle and xact_depth >= L gets ROLLBACK TO SAVEPOINT sL and then RELEASE
\* SAVEPOINT sL, its xact_depth is decremented and have_error set; failures
\* are logged only.
C5_RollbackThenRelease ==
    [][last'.op = "subabort" =>
          \A k \in Keys :
              InSubxact(k) =>
                  /\ \E i \in Lines(last'.log, k, "ROLLBACK TO SAVEPOINT") :
                     \E j \in Lines(last'.log, k, "RELEASE SAVEPOINT") :
                        /\ i < j
                        /\ last'.log[i].n = last'.level
                        /\ last'.log[j].n = last'.level
                  /\ cache'[k].xact_depth = cache[k].xact_depth - 1
                  /\ cache'[k].have_error
                  /\ last'.err = "none"]_vars

\* C5 amended: ROLLBACK TO SAVEPOINT sL is issued once; RELEASE SAVEPOINT sL
\* is issued after it only when the rollback succeeded, and not at all when
\* it failed; xact_depth is decremented and have_error set in every case; a
\* failure of either statement is logged as a warning and raises no error.
C5_ReleaseOnlyAfterRollback ==
    [][last'.op = "subabort" =>
          \A k \in Keys :
              InSubxact(k) =>
                  LET log == last'.log
                      rb == Lines(log, k, "ROLLBACK TO SAVEPOINT")
                      rl == Lines(log, k, "RELEASE SAVEPOINT")
                      failures == {i \in rb \cup rl : ~log[i].ok}
                  IN  /\ Cardinality(rb) = 1
                      /\ \A i \in rb \cup rl :
                            log[i].n = last'.level /\ log[i].conn = cache[k].conn
                      /\ \A i \in rb :
                            IF log[i].ok
                            THEN Cardinality(rl) = 1 /\ \A j \in rl : i < j
                            ELSE rl = {}
                      /\ Issued(log, k, "WARNING unable to execute") = Cardinality(failures)
                      /\ cache'[k].xact_depth = cache[k].xact_depth - 1
                      /\ cache'[k].have_error
                      /\ cache'[k].conn = cache[k].conn
                      /\ last'.err = "none"]_vars

\* a subtransaction abort whose ROLLBACK TO SAVEPOINT succeeded and whose
\* RELEASE SAVEPOINT failed: logged, xact_depth decremented, have_error set
C5_Witness ==
    /\ last.op = "subabort" /\ last.err = "none"
    /\ \E k \in Keys :
          /\ \E i \in Lines(last.log, k, "ROLLBACK TO SAVEPOINT") : last.log[i].ok
          /\ \E j \in Lines(last.log, k, "RELEASE SAVEPOINT") : ~last.log[j].ok
          /\ cache[k].xact_depth = last.level - 1
          /\ cache[k].have_error

----------------------------------------------------------------------------
(* C6 *)

\* C6: at subtransaction pre-commit at level L, an entry with a live handle
\* and xact_depth = L gets exactly one RELEASE SAVEPOINT sL and nothing else,
\* and its xact_depth becomes L - 1; for an entry with xact_depth > L a fatal
\* error is raised, no statement is issued on it and its xact_depth stays.
C6_SubCommitReleases ==
    [][last'.op = "subcommit" =>
          \A k \in Keys :
              Live(cache, k) =>
                  /\ cache[k].xact_depth = last'.level =>
                        /\ Issued(last'.log, k, "RELEASE SAVEPOINT") = 1
                        /\ \A i \in LinesOf(last'.log, k) :
                              /\ last'.log[i].stmt = "RELEASE SAVEPOINT"
                              /\ last'.log[i].n = last'.level
                              /\ last'.log[i].conn = cache[k].conn
                        /\ cache'[k].xact_depth = last'.level - 1
                  /\ cache[k].xact_depth > last'.level =>
                        /\ last'.err = "missed_subxact"
                        /\ LinesOf(last'.log, k) = {}
                        /\ cache'[k].xact_depth = cache[k].xact_depth]_vars

\* a subtransaction pre-commit released the savepoint of both entries
C6_Witness ==
    /\ last.op = "subcommit" /\ last.err = "none"
    /\ \A k \in Keys :
          /\ Issued(last.log, k, "RELEASE SAVEPOINT") = 1
          /\ Live(cache, k)
          /\ cache[k].xact_depth = last.level - 1

----------------------------------------------------------------------------
(* C7 *)

\* C7: a subtransaction pre-commit or abort at level L leaves every entry
\* with a null handle or with xact_depth < L as it is, and issues no
\* statement on it.
C7_OutsideSubxactUntouched ==
    [][last'.op \in {"subcommit", "subabort"} =>
          \A k \in Keys :
              (cache[k].conn = NULL \/ cache[k].xact_depth < last'.level) =>
                  /\ cache'[k] = cache[k]
                  /\ LinesOf(last'.log, k) = {}
                  /\ cache[k].conn # NULL =>
                        conns'[cache[k].conn] = conns[cache[k].conn]]_vars

\* a subtransaction abort acted on one entry and passed over another one
\* that has a live handle and an open remote transaction below the level
C7_Witness ==
    /\ last.op = "subabort"
    /\ \E k, j \in Keys :
          /\ LinesOf(last.log, j) # {}
          /\ LinesOf(last.log, k) = {}
          /\ Live(cache, k)
          /\ cache[k].xact_depth >= 1
          /\ ~cache[k].have_error

----------------------------------------------------------------------------
(* C8 *)

\* the connection attempts of a log: the calls that open a connection
Attempts(log) ==
    {i \in 1..Len(log) :
        log[i].stmt \in {"FQreconnect", "connect_from_options", "connect_from_handle"}}

\* the step is an acquire that finds the cached handle of its key broken
FindsBroken ==
    /\ last'.op = "acquire"
    /\ Live(cache, last'.key)
    /\ ~FQstatusOK(conns, cache[last'.key].conn)

\* C8: an acquire that finds its cached handle broken makes exactly one new
\* connection attempt, with the parameters of the old handle; on success it
\* closes the old handle, stores the new one in the same entry, emits a
\* warning and leaves xact_depth and have_error as they were.
C8_ExactlyOneReconnect ==
    [][FindsBroken =>
          LET k == last'.key
              log == last'.log
              old == cache[k].conn
          IN  /\ Cardinality(Attempts(log)) = 1
              /\ \A i \in Attempts(log) :
                    log[i].stmt = "connect_from_handle" /\ log[i].n = old
              /\ (\E i \in Attempts(log) :
                      log[i].stmt = "connect_from_handle" /\ log[i].ok) =>
                    /\ Issued(log, k, "FQfinish") = 1
                    /\ cache'[k].conn \notin {NULL, old}
                    /\ Issued(log, k, "WARNING connection has gone away") = 1
                    /\ cache'[k].have_error = cache[k].have_error
                    /\ cache'[k].xact_depth >= cache[k].xact_depth]_vars

----------------------------------------------------------------------------
(* C9 *)

\* a connection could not be established in the log
ConnectFailed(log) ==
    \E i \in 1..Len(log) :
        /\ log[i].stmt \in {"connect_from_options", "connect_from_handle"}
        /\ ~log[i].ok

\* the statements that control a remote transaction
TxnControl ==
    {"SET TRANSACTION SNAPSHOT", "SAVEPOINT", "RELEASE SAVEPOINT",
     "ROLLBACK TO SAVEPOINT", "COMMIT", "ROLLBACK"}

\* C9: when the connection cannot be established, on the first acquire for
\* a key or on the reconnect of a broken handle, acquire raises the connect
\* error, issues no transaction-control statement, returns no handle and
\* leaves the count of live connections unchanged; after a failed first
\* attempt the entry of the key exists with a null handle and xact_depth 0.
C9_ConnectFailureIsFatal ==
    [][(last'.op = "acquire" /\ ConnectFailed(last'.log)) =>
          LET k == last'.key
          IN  /\ last'.err = "connect"
              /\ failed'
              /\ \A i \in 1..Len(last'.log) : last'.log[i].stmt \notin TxnControl
              /\ last'.ret = NULL
              /\ firebirdCachedConnectionsCount(ConnectionHash', cache')
                    = firebirdCachedConnectionsCount(ConnectionHash, cache)
              /\ \A j \in Keys \ {k} : cache'[j] = cache[j]
              /\ ~Live(cache, k) =>
                    /\ cache'[k].found
                    /\ cache'[k].conn = NULL
                    /\ cache'[k].xact_depth = 0]_vars

\* a first acquire for a key failed to connect while the other key holds a
\* live connection: the key is a tombstone and one connection is counted
C9_Witness ==
    /\ last.op = "acquire" /\ last.err = "connect"
    /\ Issued(last.log, last.key, "connect_from_options") = 1
    /\ cache[last.key].found /\ cache[last.key].conn = NULL
    /\ firebirdCachedConnectionsCount(ConnectionHash, cache) = 1

----------------------------------------------------------------------------
(* C10 *)

\* the number of entries whose handle is not null
NonNull(c) == Cardinality({k \in Keys : c[k].conn # NULL})

\* the lines of a log that close the handle h
Closes(log, h) ==
    {i \in 1..Len(log) : log[i].stmt = "FQfinish" /\ log[i].conn = h}

----------------------------------------------------------------------------
(* C11 *)

\* the connections that are open on the client side
OpenConns(cs) == {h \in Handles : cs[h].st # "free"}

\* the handles the cache holds
HeldConns(c) == {c[k].conn : k \in {j \in Keys : c[j].conn # NULL}}

\* every handle of the cache is an open connection and the handle of one
\* entry only
OneConnPerKey(c, cs) ==
    /\ HeldConns(c) \subseteq OpenConns(cs)
    /\ \A j, k \in Keys :
          (c[j].conn # NULL /\ c[j].conn = c[k].conn) => j = k
    /\ \A k \in Keys : c[k].conn # NULL => c[k].found

\* C11: the cache holds one entry and at most one live handle per key: every
\* handle it holds is an open connection held by that entry only; the first acquire for
\* a key creates the entry and makes one connection attempt from the options
\* (the entry has xact_depth 0 if that fails); an acquire that finds a
\* healthy cached handle opens no connection and returns that handle.
C11_OneConnectionPerKey ==
    /\ OneConnPerKey(cache, conns)
    /\ [][/\ OneConnPerKey(cache', conns')
          /\ last'.op = "acquire" =>
                LET k == last'.key
                    log == last'.log
                IN  /\ cache'[k].found
                    /\ \A j \in Keys \ {k} : cache'[j] = cache[j]
                    /\ ~cache[k].found =>
                          /\ Cardinality(Attempts(log)) = 1
                          /\ Issued(log, k, "connect_from_options") = 1
                          /\ ConnectFailed(log) =>
                                (cache'[k].conn = NULL /\ cache'[k].xact_depth = 0)
                          /\ ~ConnectFailed(log) =>
                                (OpenConns(conns') = OpenConns(conns) \cup {cache'[k].conn}
                                   /\ cache'[k].conn \notin OpenConns(conns))
                    /\ (Live(cache, k) /\ FQstatusOK(conns, cache[k].conn)) =>
                          /\ Attempts(log) = {}
                          /\ cache'[k].conn = cache[k].conn
                          /\ OpenConns(conns') = OpenConns(conns)
                          /\ last'.err = "none" => last'.ret = cache[k].conn]_vars

\* an acquire found the healthy handle of its key and returned it, while the
\* other key holds a connection of its own
C11_Witness ==
    /\ last.op = "acquire" /\ last.err = "none"
    /\ Attempts(last.log) = {}
    /\ last.ret = cache[last.key].conn
    /\ \A k \in Keys : Live(cache, k)
    /\ Cardinality(OpenConns(conns)) = 2

----------------------------------------------------------------------------
(* C12 *)

\* in the log of a pre-commit the commit on key j succeeded and the commit
\* on key k failed
PartialCommit(log, j, k) ==
    /\ j # k
    /\ \E i \in Lines(log, j, "COMMIT") : log[i].ok
    /\ \E i \in Lines(log, k, "COMMIT") : ~log[i].ok

\* C12: no two-phase coordination.  When pre-commit committed the remote
\* transaction of one entry and the commit on another entry failed, the
\* first stays committed (no remote transaction, xact_depth 0), the second
\* keeps its remote transaction, the local transaction fails; the abort
\* that follows issues one ROLLBACK on the second entry and no statement on
\* the first, whose connection is left as it is.
C12_NoTwoPhaseCommit ==
    [][\A j, k \in Keys :
          /\ (last'.op = "precommit" /\ PartialCommit(last'.log, j, k)) =>
                /\ last'.err = "commit" /\ failed' /\ level' = level
                /\ xact_got_connection'
                /\ cache'[j].xact_depth = 0
                /\ ~FQisActiveTransaction(conns', cache'[j].conn)
                /\ cache'[k] = cache[k]
                /\ FQisActiveTransaction(conns', cache'[k].conn)
          /\ (last.op = "precommit" /\ PartialCommit(last.log, j, k)
                /\ last'.op = "abort") =>
                /\ LinesOf(last'.log, j) = {}
                /\ cache'[j] = cache[j]
                /\ conns'[cache[j].conn] = conns[cache[j].conn]
                /\ Issued(last'.log, k, "ROLLBACK") = 1
                /\ Cardinality(LinesOf(last'.log, k)) = 1
                /\ cache'[k].xact_depth = 0
                /\ last'.err = "none" /\ level' = 0]_vars

\* pre-commit committed the first connection and failed on the second: one
\* remote transaction is committed, the other is still open, and the local
\* transaction is failed
C12_Witness ==
    /\ last.op = "precommit" /\ last.err = "commit" /\ failed
    /\ \E j, k \in Keys :
          /\ PartialCommit(last.log, j, k)
          /\ ~FQisActiveTransaction(conns, cache[j].conn)
          /\ FQisActiveTransaction(conns, cache[k].conn)
          /\ cache[j].xact_depth = 0 /\ cache[k].xact_depth >= 1

----------------------------------------------------------------------------
(* C13 *)

\* the operations that run fb_xact_callback and fb_subxact_callback
TopLevelOps == {"precommit", "preprepare", "abort"}
CallbackOps == TopLevelOps \cup {"subcommit", "subabort"}

\* C13: with xact_got_connection clear the transaction and subtransaction
\* callbacks issue no statement, raise nothing and leave every entry and
\* every connection as it is; every acquire sets the flag; the flag is
\* cleared by a top-level callback that completes, and by nothing else.
C13_IdleCallbacksDoNothing ==
    [][/\ (last'.op \in CallbackOps /\ ~xact_got_connection) =>
             /\ last'.log = <<>>
             /\ last'.err = "none"
             /\ cache' = cache
             /\ conns' = conns
             /\ ~xact_got_connection'
       /\ last'.op = "acquire" => xact_got_connection'
       /\ (xact_got_connection /\ ~xact_got_connection') =>
             (last'.op \in TopLevelOps /\ last'.err = "none")
       /\ (last'.op \in TopLevelOps /\ last'.err = "none") =>
             ~xact_got_connection']_vars

\* a subtransaction abort in a transaction that made no acquire passed over
\* the cached connection of an earlier transaction
C13_Witness ==
    /\ last.op = "subabort" /\ ~xact_got_connection
    /\ last.log = <<>>
    /\ \E k \in Keys : Live(cache, k) /\ FQstatusOK(conns, cache[k].conn)

----------------------------------------------------------------------------
(* convert.c: the classification of restriction clauses                    *)
(* (foreign_expr_walker) and their rendering as Firebird SQL               *)
(* (convertExprRecursor).  An expression node is a record with the node    *)
(* tag and the fields of the PostgreSQL struct the code reads.  Text is a  *)
(* sequence of pieces; the characters of a string value are pieces of      *)
(* their own, so that quoting is visible.                                  *)

\* the length of the longest string value
MaxStr == 2

\* the characters of string values: a plain one, the quote, the backslash
Chars == {"a", "'", "\\"}

\* the string values of at most n characters
RECURSIVE StringsUpTo(_)
StringsUpTo(n) ==
    IF n = 0 THEN {<<>>}
    ELSE StringsUpTo(n - 1) \cup
         {Append(t, c) : t \in {x \in StringsUpTo(n - 1) : Len(x) = n - 1}, c \in Chars}

Strings == StringsUpTo(MaxStr)

\* FQserverVersion: one version below and one at each version the code tests
Versions == {10400, 10500, 20000, 20100, 20500, 30000}

\* the attribute numbers of the foreign table's columns, and their names
ColumnInt == 1
ColumnBool == 2
ColumnText == 3
ColumnArray == 4
ColumnName(attno) ==
    CASE attno = ColumnInt -> "C1"
      [] attno = ColumnBool -> "B1"
      [] attno = ColumnText -> "T1"
      [] attno = ColumnArray -> "A1"
      [] OTHER -> "ctid"

\* Var: foreign = (varno = foreignrel->relid and varlevelsup = 0)
Var(attno, type, foreign) ==
    [tag |-> "T_Var", foreign |-> foreign, varattno |-> attno, vartype |-> type]

\* Const with the text its type's output function gives
Const(type, extval) ==
    [tag |-> "T_Const", consttype |-> type, constisnull |-> FALSE, extval |-> extval]

ConstNull(type) ==
    [tag |-> "T_Const", consttype |-> type, constisnull |-> TRUE, extval |-> <<>>]

\* an element of an array value
Elem(val) == [isnull |-> FALSE, val |-> val]
ElemNull == [isnull |-> TRUE, val |-> <<>>]

\* Const of an array type
ConstArray(type, elems) ==
    [tag |-> "T_Const", consttype |-> type, constisnull |-> FALSE,
     extval |-> <<"{}">>, elems |-> elems]

\* OpExpr / DistinctExpr with what pg_operator says of opno
OpExpr(tag, builtin, schema, oprname, args) ==
    [tag |-> tag, builtin |-> builtin, oprnamespace |-> schema,
     oprname |-> oprname, args |-> args]

BoolExpr(boolop, args) == [tag |-> "T_BoolExpr", boolop |-> boolop, args |-> args]

NullTest(nulltesttype, arg) ==
    [tag |-> "T_NullTest", nulltesttype |-> nulltesttype, arg |-> arg]

BooleanTest(booltesttype, arg) ==
    [tag |-> "T_BooleanTest", booltesttype |-> booltesttype, arg |-> arg]

ScalarArrayOpExpr(builtin, oprname, useOr, oprleft, args) ==
    [tag |-> "T_ScalarArrayOpExpr", builtin |-> builtin, oprname |-> oprname,
     useOr |-> useOr, oprleft |-> oprleft, args |-> args]

FuncExpr(proname, schema, funcformat, funcresulttype, args) ==
    [tag |-> "T_FuncExpr", proname |-> proname, pronamespace |-> schema,
     funcformat |-> funcformat, funcresulttype |-> funcresulttype, args |-> args]

RelabelType(relabelformat, arg) ==
    [tag |-> "T_RelabelType", relabelformat |-> relabelformat, arg |-> arg]

\* a node of a kind the walker has no case for
OtherNode(tag) == [tag |-> tag]

----------------------------------------------------------------------------
(* foreign_expr_walker                                                     *)

\* canConvertPgType (firebird_fdw.h)
canConvertPgType(x) ==
    x \in {"TEXTOID", "CHAROID", "BPCHAROID", "VARCHAROID", "NAMEOID", "INT8OID",
           "INT2OID", "INT4OID", "FLOAT4OID", "FLOAT8OID", "NUMERICOID", "DATEOID",
           "TIMESTAMPOID", "TIMEOID"}

\* is_builtin: the oid of the operator is below FirstGenbkiObjectId
is_builtin(oe) == oe.builtin

canConvertOp(oe, firebird_version) ==
    IF oe.oprnamespace # "pg_catalog" THEN FALSE
    ELSE IF oe.oprname \in {"=", "<>", ">", "<", ">=", "<=", "~~", "!~~", "~~*", "!~~*"}
         THEN TRUE
         ELSE firebird_version >= 20100 /\ oe.oprname \in {"<<", ">>"}

\* the functions the walker lets through from Firebird 2.0 on
Functions20 == {"bit_length", "char_length", "character_length", "lower",
                "octet_length", "upper"}

\* the functions the walker lets through from Firebird 2.1 on
Functions21 ==
    {"abs", "acos", "asin", "atan", "atan2", "ceil", "ceiling", "cos", "cot", "exp",
     "floor", "ltrim", "length", "log", "mod", "nullif", "overlay", "position", "pow",
     "power", "reverse", "rtrim", "sign", "sin", "sqrt", "strpos", "tan", "trunc"}

\* the functions the walker lets through from Firebird 2.5 on
Functions25 == {"lpad", "rpad"}

\* the test of the arguments of substring: arg->consttype is read from the
\* second and third argument whatever node they are; in a node that is no
\* Const the read gives the field at that place (varno of a Var, funcid of a
\* FuncExpr, opno of an OpExpr), which for the nodes of this model is never
\* INT4OID
SubstringCanHandle(args) ==
    LET isInt(n) == n.tag = "T_Const" /\ n.consttype = "INT4OID"
    IN  isInt(args[2]) \/ (Len(args) = 3 /\ isInt(args[3]))

\* the part of case T_FuncExpr after the schema test
FunctionAllowed(func, firebird_version) ==
    LET oprname == func.proname
        nargs == Len(func.args)
    IN  IF firebird_version >= 10500
           /\ (oprname = "concat" \/ (oprname = "coalesce" /\ nargs >= 2))
        THEN TRUE
        ELSE IF firebird_version >= 20000 /\ oprname \in Functions20
        THEN TRUE
        ELSE IF firebird_version >= 20000 /\ oprname = "substring" /\ nargs \in {2, 3}
        THEN SubstringCanHandle(func.args)
        ELSE IF firebird_version >= 20100 /\ oprname \in Functions21
        THEN TRUE
        ELSE firebird_version >= 20500 /\ oprname \in Functions25

RECURSIVE foreign_expr_walker(_, _)
\* case T_List
foreign_expr_walker_list(l, firebird_version) ==
    \A i \in 1..Len(l) : foreign_expr_walker(l[i], firebird_version)

foreign_expr_walker(node, firebird_version) ==
    CASE node.tag = "T_Var" ->
            IF node.foreign THEN node.varattno >= 1 ELSE FALSE
      [] node.tag = "T_Const" -> node.consttype # "UUIDOID"
      [] node.tag \in {"T_OpExpr", "T_DistinctExpr"} ->
            /\ is_builtin(node)
            /\ canConvertOp(node, firebird_version)
            /\ foreign_expr_walker_list(node.args, firebird_version)
      [] node.tag = "T_BoolExpr" ->
            foreign_expr_walker_list(node.args, firebird_version)
      [] node.tag \in {"T_NullTest", "T_BooleanTest"} ->
            foreign_expr_walker(node.arg, firebird_version)
      [] node.tag = "T_ScalarArrayOpExpr" ->
            /\ is_builtin(node)
            /\ ~((node.oprname # "=" \/ ~node.useOr) /\ (node.oprname # "<>" \/ node.useOr))
            /\ canConvertPgType(node.oprleft)
            /\ foreign_expr_walker_list(node.args, firebird_version)
      [] node.tag = "T_FuncExpr" ->
            IF ~canConvertPgType(node.funcresulttype) THEN FALSE
            ELSE IF node.funcformat = "COERCE_IMPLICIT_CAST"
            THEN foreign_expr_walker_list(node.args, firebird_version)
            ELSE /\ foreign_expr_walker_list(node.args, firebird_version)
                 /\ node.pronamespace = "pg_catalog"
                 /\ FunctionAllowed(node, firebird_version)
      [] node.tag = "T_RelabelType" ->
            foreign_expr_walker(node.arg, firebird_version)
      [] OTHER -> FALSE

isFirebirdExpr(expr, firebird_version) == foreign_expr_walker(expr, firebird_version)

----------------------------------------------------------------------------
(* convertExprRecursor.  A convert function leaves text in *result, or     *)
(* returns without setting it, or raises ERROR.  Each operator yields the  *)
(* set of outcomes [st, text] the call may have: "ok" with the text,       *)
(* "unset", "error", or "crash" where the code reads a pointer it never    *)
(* set.                                                                    *)

Ok(text) == [st |-> "ok", text |-> text]
Unset == [st |-> "unset", text |-> <<>>]
Error(msg) == [st |-> "error", text |-> <<msg>>]
Crash == [st |-> "crash", text |-> <<>>]

\* what a read of memory that holds no string may give as text
Garbage == "<garbage>"

\* "char *local_result;" before and after a value was stored in it
Uninit == [set |-> FALSE, text |-> <<>>]
Holds(text) == [set |-> TRUE, text |-> text]

\* What the caller has in "char *local_result;" after the call: the callee's
\* text, or, when the callee did not set it, the value the variable held
\* before the call; while it holds none the read is undefined, and may crash
\* or give any bytes.
ReadLocal(r, before) ==
    IF r.st # "unset" THEN {r}
    ELSE IF ~before.set THEN {Crash, Ok(<<Garbage>>)}
    ELSE {Ok(before.text)}

\* What the caller has in "char *left = NULL;" after the call: a NULL that
\* the callee left is passed to a %s conversion, which is undefined and
\* prints "(null)" or crashes.
ReadNull(r) ==
    IF r.st # "unset" THEN {r} ELSE {Crash, Ok(<<"(null)">>)}

\* the convert_expr_cxt of buildWhereClause
Context(state, colopts) ==
    [firebird_version |-> state.firebird_version,
     implicit_bool_type |-> state.implicit_bool_type,
     column_implicit_bool_type |-> colopts.implicit_bool_type,
     check_implicit_bool |-> TRUE]

\* SQL_STR_DOUBLE(ch, true): the quote and, with escape_backslash, the
\* backslash
SQL_STR_DOUBLE(ch) == ch = "'" \/ ch = "\\"

\* convertStringLiteral: the loop over the characters of val
RECURSIVE convertStringLiteralChars(_)
convertStringLiteralChars(val) ==
    IF val = <<>> THEN <<>>
    ELSE (IF SQL_STR_DOUBLE(Head(val)) THEN <<Head(val), Head(val)>> ELSE <<Head(val)>>)
         \o convertStringLiteralChars(Tail(val))

convertStringLiteral(val) == <<"'">> \o convertStringLiteralChars(val) \o <<"'">>

\* convertDatum, the string types: the loop over the characters of str
RECURSIVE convertDatumChars(_)
convertDatumChars(str) ==
    IF str = <<>> THEN <<>>
    ELSE (IF Head(str) = "'" THEN <<"'", "'">> ELSE <<Head(str)>>)
         \o convertDatumChars(Tail(str))

\* convertDatum: the text of an array element, or NULL for a type it does
\* not know
convertDatum(str, type) ==
    CASE type \in {"TEXTOID", "CHAROID", "BPCHAROID", "VARCHAROID", "NAMEOID"} ->
            Ok(<<"'">> \o convertDatumChars(str) \o <<"'">>)
      [] type \in {"INT8OID", "INT2OID", "INT4OID", "OIDOID", "FLOAT4OID", "FLOAT8OID",
                   "NUMERICOID"} -> Ok(str)
      [] type \in {"TIMESTAMPOID", "TIMEOID", "DATEOID"} -> Ok(<<"'">> \o str \o <<"'">>)
      [] type = "BOOLOID" -> Ok(IF Head(str) = "t" THEN <<"TRUE">> ELSE <<"FALSE">>)
      [] OTHER -> Unset

\* convertVar: is the column rendered as an implicit boolean
VarImplicitBool(node, cxt) ==
    /\ node.vartype = "BOOLOID"
    /\ cxt.check_implicit_bool
    /\ cxt.implicit_bool_type
    /\ (cxt.firebird_version < 30000 \/ cxt.column_implicit_bool_type)

convertVar(node, cxt) ==
    IF node.foreign
    THEN Ok(<<ColumnName(node.varattno)>>
            \o (IF VarImplicitBool(node, cxt) THEN <<" <> 0">> ELSE <<>>))
    ELSE Error("var does not belong to foreign table")

convertConst(node, cxt) ==
    IF node.constisnull THEN Ok(<<"NULL">>)
    ELSE CASE node.consttype \in {"INT2OID", "INT4OID", "INT8OID", "FLOAT4OID",
                                  "FLOAT8OID", "NUMERICOID"} -> Ok(node.extval)
           [] node.consttype = "BOOLOID" ->
                 IF cxt.firebird_version >= 30000
                 THEN Ok(IF node.extval = <<"t">> THEN <<"true">> ELSE <<"false">>)
                 ELSE Error("BOOLEAN datatype supported from Firebird 3.0")
           [] node.consttype \in {"OIDOID", "BITOID", "VARBITOID"} ->
                 Error("unsupported data type")
           [] OTHER -> Ok(convertStringLiteral(node.extval))

\* convertOperatorName
convertOperatorName(opform, left, right) ==
    LET oprname == opform.oprname
    IN  IF opform.oprnamespace # "pg_catalog" THEN Error("Operator not in pg_catalog!")
        ELSE CASE oprname \in {"=", "<>", ">", "<", ">=", "<="} ->
                     Ok(left \o <<" ", oprname, " ">> \o right)
               [] oprname = "~~" -> Ok(left \o <<" LIKE ">> \o right)
               [] oprname = "!~~" -> Ok(left \o <<" NOT LIKE ">> \o right)
               [] oprname = "~~*" ->
                     Ok(<<"LOWER", "(">> \o left \o <<")", " LIKE ", "LOWER", "(">>
                        \o right \o <<")">>)
               [] oprname = "!~~*" ->
                     Ok(<<"LOWER", "(">> \o left \o <<")", " NOT LIKE ", "LOWER", "(">>
                        \o right \o <<")">>)
               [] oprname = "<<" ->
                     Ok(<<"BIN_SHL", "(">> \o left \o <<", ">> \o right \o <<")">>)
               [] oprname = ">>" ->
                     Ok(<<"BIN_SHR", "(">> \o left \o <<", ">> \o right \o <<")">>)
               [] OTHER -> Error("Unable to handle operator")

\* the outcomes that end the calling function too
Ends(r) == r.st \in {"error", "crash"}

\* the array elements from the i-th on, appended to buf; Unset when
\* convertDatum does not know the type
RECURSIVE ArrayElements(_, _, _, _)
ArrayElements(elems, i, type, buf) ==
    IF i > Len(elems) THEN Ok(buf)
    ELSE LET c == IF elems[i].isnull THEN Ok(<<"NULL">>)
                  ELSE convertDatum(elems[i].val, type)
         IN  IF c.st = "unset" THEN Unset
             ELSE ArrayElements(elems, i + 1, type,
                                buf \o (IF i = 1 THEN <<>> ELSE <<", ">>) \o c.text)

\* firebirdGetColumnOptions: the option implicit_bool_type of a column
ColumnImplicitBool(cxt, attno) == attno = ColumnBool /\ cxt.column_implicit_bool_type

\* the argument converted in the context of the test itself
ArgContext_same(node, cxt) == cxt

\* convertNullTest and convertBooleanTest: the context the argument is
\* converted in
ArgContext(node, cxt) ==
    IF cxt.implicit_bool_type /\ node.arg.tag = "T_Var"
    THEN [cxt EXCEPT !.check_implicit_bool = FALSE]
    ELSE cxt

\* convertBooleanTest: implicit_bool_type after the argument is converted
TestImplicitBool(node, cxt) ==
    IF ~cxt.implicit_bool_type THEN FALSE
    ELSE IF cxt.firebird_version < 30000 THEN TRUE
    ELSE IF node.arg.tag = "T_Var" THEN ColumnImplicitBool(cxt, node.arg.varattno)
    ELSE FALSE

\* convertBooleanTest: the text, for a remote BOOLEAN column
BooleanTestNative(booltesttype, a) ==
    CASE booltesttype = "IS_TRUE" -> <<"(">> \o a \o <<" IS TRUE", ")">>
      [] booltesttype = "IS_NOT_TRUE" ->
            <<"(">> \o a \o <<" IS FALSE", ")", " OR ", "(">> \o a \o <<" IS NULL", ")">>
      [] booltesttype = "IS_FALSE" -> <<"(">> \o a \o <<" IS FALSE", ")">>
      [] booltesttype = "IS_NOT_FALSE" ->
            <<"(">> \o a \o <<" IS TRUE", ")", " OR ", "(">> \o a \o <<" IS NULL", ")">>
      [] booltesttype = "IS_UNKNOWN" -> <<"(">> \o a \o <<" IS NULL", ")">>
      [] OTHER -> <<"(">> \o a \o <<" IS NOT NULL", ")">>

\* convertBooleanTest: the text, for a remote integer column
BooleanTestImplicit(booltesttype, a) ==
    CASE booltesttype = "IS_TRUE" -> <<"(">> \o a \o <<" <> 0", ")">>
      [] booltesttype = "IS_NOT_TRUE" ->
            <<"(">> \o a \o <<" = 0", ")", " OR ", "(">> \o a \o <<" IS NULL", ")">>
      [] booltesttype = "IS_FALSE" -> <<"(">> \o a \o <<" = 0", ")">>
      [] booltesttype = "IS_NOT_FALSE" ->
            <<"(">> \o a \o <<" <> 0", ")", " OR ", "(">> \o a \o <<" IS NULL", ")">>
      [] booltesttype = "IS_UNKNOWN" -> <<"(">> \o a \o <<" IS NULL", ")">>
      [] OTHER -> <<"(">> \o a \o <<" IS NOT NULL", ")">>

\* convertFunction: the name the function is sent under
FunctionName(node) ==
    CASE node.proname = "length" -> "CHAR_LENGTH"
      [] node.proname = "log" -> IF Len(node.args) = 1 THEN "LOG10" ELSE "LOG"
      [] node.proname = "pow" -> "POWER"
      [] OTHER -> node.proname

\* what precedes the i-th argument in a list joined by sep
Joined(sep, n) == [i \in 1..n |-> IF i = 1 THEN <<>> ELSE <<sep>>]

RECURSIVE convertExprRecursor(_, _)
RECURSIVE ConvertArgs(_, _, _, _, _, _)

\* A loop that converts the arguments from the i-th on into one
\* "char *local_result" and appends each to buf after seps[i].
ConvertArgs(args, i, seps, buf, local, cxt) ==
    IF i > Len(args) THEN {Ok(buf)}
    ELSE UNION {UNION {IF Ends(u) THEN {u}
                       ELSE ConvertArgs(args, i + 1, seps, buf \o seps[i] \o u.text,
                                        Holds(u.text), cxt)
                       : u \in ReadLocal(r, local)}
                : r \in convertExprRecursor(args[i], cxt)}

\* the text t between what a function puts before and after it
Wrapped(before, rs, after) ==
    {IF r.st = "ok" THEN Ok(before \o r.text \o after) ELSE r : r \in rs}

convertBoolExpr(node, cxt) ==
    IF node.boolop = "NOT_EXPR"
    THEN UNION {Wrapped(<<"(", "NOT ">>, ReadLocal(r, Uninit), <<")">>)
                : r \in convertExprRecursor(node.args[1], cxt)}
    ELSE Wrapped(<<"(">>,
                 ConvertArgs(node.args, 1,
                             Joined(IF node.boolop = "AND_EXPR" THEN " AND " ELSE " OR ",
                                    Len(node.args)),
                             <<>>, Uninit, cxt),
                 <<")">>)

convertNullTest(node, cxt) ==
    UNION {Wrapped(<<"(">>, ReadLocal(r, Uninit),
                   <<IF node.nulltesttype = "IS_NULL" THEN " IS NULL" ELSE " IS NOT NULL",
                     ")">>)
           : r \in convertExprRecursor(node.arg, ArgContext(node, cxt))}

convertBooleanTest(node, cxt) ==
    UNION {{IF Ends(u) THEN u
            ELSE IF TestImplicitBool(node, cxt)
            THEN Ok(BooleanTestImplicit(node.booltesttype, u.text))
            ELSE Ok(BooleanTestNative(node.booltesttype, u.text))
            : u \in ReadNull(r)}
           : r \in convertExprRecursor(node.arg, ArgContext(node, cxt))}

\* convertOpExpr, for a binary operator: "char *left = NULL; char *right = NULL;"
\* are formatted with %s once the operator's name is known
convertOpExpr(node, cxt) ==
    UNION {IF Ends(l0) THEN {l0}
           ELSE UNION {IF Ends(r0) THEN {r0}
                       ELSE IF convertOperatorName(node, <<>>, <<>>).st = "error"
                       THEN {convertOperatorName(node, <<>>, <<>>)}
                       ELSE UNION {UNION {IF Ends(l) THEN {l}
                                          ELSE IF Ends(r) THEN {r}
                                          ELSE Wrapped(<<"(">>,
                                                       {convertOperatorName(node, l.text, r.text)},
                                                       <<")">>)
                                          : r \in ReadNull(r0)}
                                   : l \in ReadNull(l0)}
                       : r0 \in convertExprRecursor(node.args[Len(node.args)], cxt)}
           : l0 \in convertExprRecursor(node.args[1], cxt)}

convertRelabelType(node, cxt) ==
    {IF Ends(r) THEN r
     ELSE IF node.relabelformat # "COERCE_IMPLICIT_CAST"
     THEN Error("convertRelabelType(): attempting to create cast")
     ELSE r
     : r \in convertExprRecursor(node.arg, cxt)}

\* convertScalarArrayOpExpr, after the left operand: the last argument is
\* read as a Const with an array value whatever node it is
ArrayList(node, buf) ==
    LET constant == node.args[Len(node.args)]
    IN  IF constant.tag # "T_Const" \/ "elems" \notin DOMAIN constant
           \/ constant.constisnull
        THEN {Crash, Unset, Ok(buf \o <<Garbage, ")", ")">>)}
        ELSE LET r == ArrayElements(constant.elems, 1, node.oprleft, buf)
             IN  IF r.st = "unset" \/ constant.elems = <<>> THEN {Unset}
                 ELSE {Ok(r.text \o <<")", ")">>)}

convertScalarArrayOpExpr(node, cxt) ==
    UNION {UNION {IF Ends(l) THEN {l}
                  ELSE ArrayList(node, <<"(">> \o l.text
                                       \o <<IF node.useOr THEN " IN " ELSE " NOT IN ", "(">>)
                  : l \in ReadNull(l0)}
           : l0 \in convertExprRecursor(node.args[1], cxt)}

convertFunctionConcat(node, cxt) ==
    Wrapped(<<"(">>,
            ConvertArgs(node.args, 1, Joined(" || ", Len(node.args)), <<>>, Uninit, cxt),
            <<")">>)

\* convertFunctionPosition: "char *string; char *substring;"
convertFunctionPosition(node, cxt) ==
    UNION {UNION {IF Ends(str) THEN {str}
                  ELSE UNION {Wrapped(<<"POSITION", "(">>, ReadLocal(r, Uninit),
                                      <<" IN ">> \o str.text \o <<")">>)
                              : r \in convertExprRecursor(node.args[2], cxt)}
                  : str \in ReadLocal(r0, Uninit)}
           : r0 \in convertExprRecursor(node.args[1], cxt)}

convertFunctionSubstring(node, cxt) ==
    Wrapped(<<"SUBSTRING", "(">>,
            ConvertArgs(node.args, 1,
                        [i \in 1..Len(node.args) |->
                            CASE i = 1 -> <<>> [] i = 2 -> <<" FROM ">> [] OTHER -> <<" FOR ">>],
                        <<>>, Uninit, cxt),
            <<")">>)

\* convertFunctionTrim: "char *from = NULL; char *what = NULL;"
convertFunctionTrim(node, cxt, where) ==
    UNION {UNION {IF Ends(from) THEN {from}
                  ELSE IF Len(node.args) = 2
                  THEN UNION {Wrapped(<<"TRIM", "(", where, " ">>, ReadNull(r),
                                      <<" FROM ">> \o from.text \o <<")">>)
                              : r \in convertExprRecursor(node.args[2], cxt)}
                  ELSE {Ok(<<"TRIM", "(", where, " FROM ">> \o from.text \o <<")">>)}
                  : from \in ReadNull(r0)}
           : r0 \in convertExprRecursor(node.args[1], cxt)}

convertFunction(node, cxt) ==
    IF node.funcformat = "COERCE_IMPLICIT_CAST"
    THEN UNION {ReadLocal(r, Uninit) : r \in convertExprRecursor(node.args[1], cxt)}
    ELSE CASE node.proname = "concat" -> convertFunctionConcat(node, cxt)
           [] node.proname \in {"position", "strpos"} -> convertFunctionPosition(node, cxt)
           [] node.proname = "substring" -> convertFunctionSubstring(node, cxt)
           [] node.proname = "ltrim" -> convertFunctionTrim(node, cxt, "LEADING")
           [] node.proname = "rtrim" -> convertFunctionTrim(node, cxt, "TRAILING")
           [] OTHER ->
                 Wrapped(<<FunctionName(node), "(">>,
                         ConvertArgs(node.args, 1, Joined(",", Len(node.args)), <<>>,
                                     Uninit, cxt),
                         <<")">>)

convertExprRecursor(node, cxt) ==
    CASE node.tag = "T_Var" -> {convertVar(node, cxt)}
      [] node.tag = "T_OpExpr" -> convertOpExpr(node, cxt)
      [] node.tag = "T_Const" -> {convertConst(node, cxt)}
      [] node.tag = "T_RelabelType" -> convertRelabelType(node, cxt)
      [] node.tag = "T_BoolExpr" -> convertBoolExpr(node, cxt)
      [] node.tag = "T_BooleanTest" -> convertBooleanTest(node, cxt)
      [] node.tag = "T_NullTest" -> convertNullTest(node, cxt)
      [] node.tag = "T_ScalarArrayOpExpr" -> convertScalarArrayOpExpr(node, cxt)
      [] node.tag = "T_FuncExpr" -> convertFunction(node, cxt)
      [] OTHER -> {Error("unsupported expression type for convert")}

\* convertExpr: the text appended to context->buf, none when the node left
\* no result
convertExpr(node, cxt) ==
    {IF r.st = "unset" THEN Ok(<<>>) ELSE r : r \in convertExprRecursor(node, cxt)}

\* buildWhereClause: the loop over exprs from the i-th on
RECURSIVE buildWhereClauseFrom(_, _, _, _)
buildWhereClauseFrom(exprs, i, output, cxt) ==
    IF i > Len(exprs) THEN {Ok(output)}
    ELSE UNION {IF Ends(r) THEN {r}
                ELSE buildWhereClauseFrom(
                         exprs, i + 1,
                         output \o <<IF i = 1 THEN " WHERE " ELSE " AND ", "(">>
                                \o r.text \o <<")">>,
                         cxt)
                : r \in convertExpr(exprs[i], cxt)}

buildWhereClause(exprs, cxt) == buildWhereClauseFrom(exprs, 1, <<>>, cxt)

----------------------------------------------------------------------------
(* The restriction clauses of a scan of a foreign table with the columns   *)
(* C1 integer, B1 boolean, T1 text and A1 integer[].                       *)

VarInt == Var(ColumnInt, "INT4OID", TRUE)
VarBool == Var(ColumnBool, "BOOLOID", TRUE)
VarText == Var(ColumnText, "TEXTOID", TRUE)
VarArray == Var(ColumnArray, "INT4ARRAYOID", TRUE)
\* a system column
VarSystem == Var(0, "TIDOID", TRUE)
\* a column of another relation
VarLocal == Var(ColumnInt, "INT4OID", FALSE)

IntConst(n) == Const("INT4OID", <<n>>)
TextConst(s) == Const("TEXTOID", s)

\* a built-in operator of pg_catalog
Op(oprname, l, r) == OpExpr("T_OpExpr", TRUE, "pg_catalog", oprname, <<l, r>>)
\* a function of pg_catalog in a plain call
Func(proname, type, args) ==
    FuncExpr(proname, "pg_catalog", "COERCE_EXPLICIT_CALL", type, args)

IntArray(ns) == ConstArray("INT4ARRAYOID", [i \in 1..Len(ns) |-> Elem(<<ns[i]>>)])
TextArray(ss) == ConstArray("TEXTARRAYOID", [i \in 1..Len(ss) |-> Elem(ss[i])])

\* C1 = ANY (arr)
AnyOf(arr) == ScalarArrayOpExpr(TRUE, "=", TRUE, "INT4OID", <<VarInt, arr>>)
\* C1 <> ALL (arr)
NoneOf(arr) == ScalarArrayOpExpr(TRUE, "<>", FALSE, "INT4OID", <<VarInt, arr>>)
\* T1 = ANY (arr)
TextAnyOf(arr) == ScalarArrayOpExpr(TRUE, "=", TRUE, "TEXTOID", <<VarText, arr>>)

BoolTests == {"IS_TRUE", "IS_NOT_TRUE", "IS_FALSE", "IS_NOT_FALSE", "IS_UNKNOWN",
              "IS_NOT_UNKNOWN"}

CoerceForms == {"COERCE_EXPLICIT_CALL", "COERCE_EXPLICIT_CAST", "COERCE_IMPLICIT_CAST"}

Comparisons ==
    {Op(o, VarInt, IntConst("5")) : o \in {"=", "<>", "<", "+"}}
    \cup {Op("=", VarText, TextConst(s)) : s \in Strings}
    \cup {Op(o, VarText, TextConst(<<"a">>)) : o \in {"~~", "!~~", "~~*", "!~~*"}}
    \cup {Op("=", Op(o, VarInt, IntConst("5")), IntConst("5")) : o \in {"<<", ">>"}}
    \cup {Op("=", VarInt, r) : r \in {VarSystem, VarLocal, ConstNull("INT4OID"),
                                      Const("OIDOID", <<"7">>),
                                      Const("UUIDOID", <<"u">>),
                                      OtherNode("T_SubLink"), OtherNode("T_Param")}}
    \cup {Op(o, VarBool, Const("BOOLOID", <<b>>)) : o \in {"=", ">"}, b \in {"t", "f"}}
    \cup {OpExpr("T_OpExpr", b, n, "=", <<VarInt, IntConst("5")>>)
          : b \in BOOLEAN, n \in {"pg_catalog", "public"}}
    \cup {OpExpr("T_DistinctExpr", TRUE, "pg_catalog", "=", <<VarInt, IntConst("5")>>)}

Tests ==
    {NullTest(t, a) : t \in {"IS_NULL", "IS_NOT_NULL"}, a \in {VarInt, VarBool}}
    \cup {BooleanTest(t, a)
          : t \in BoolTests, a \in {VarBool, Op("=", VarInt, IntConst("5"))}}
    \cup {VarBool, OtherNode("T_SubLink")}

Memberships ==
    {AnyOf(IntArray(ns)) : ns \in {<<>>, <<"1">>, <<"1", "2", "3">>}}
    \cup {NoneOf(IntArray(ns)) : ns \in {<<>>, <<"1", "2">>}}
    \cup {AnyOf(ConstArray("INT4ARRAYOID", <<Elem(<<"1">>), ElemNull>>))}
    \cup {TextAnyOf(TextArray(<<s>>)) : s \in Strings}
    \cup {TextAnyOf(TextArray(<<<<"a">>, <<"'">>>>))}
    \cup {AnyOf(r) : r \in {VarArray, OtherNode("T_SubLink"), OtherNode("T_ArrayExpr"),
                            FuncExpr("int4", "pg_catalog", "COERCE_IMPLICIT_CAST",
                                     "INT4OID", <<VarArray>>)}}
    \cup {ScalarArrayOpExpr(b, o, u, "INT4OID", <<VarInt, IntArray(<<"1", "2">>)>>)
          : b \in BOOLEAN, o \in {"=", "<>", "<"}, u \in BOOLEAN}
    \cup {ScalarArrayOpExpr(TRUE, "=", TRUE, "BOOLOID",
                            <<VarBool, ConstArray("BOOLARRAYOID", <<Elem(<<"t">>)>>)>>),
          ScalarArrayOpExpr(TRUE, "=", TRUE, "INT4OID",
                            <<VarSystem, IntArray(<<"1">>)>>)}

Calls ==
    {Op("=", Func(f, "TEXTOID", <<VarText>>), TextConst(<<"a">>))
     : f \in {"lower", "upper", "reverse", "ltrim", "rtrim", "md5"}}
    \cup {Op("=", Func(f, "INT4OID", <<VarText>>), IntConst("5"))
          : f \in {"length", "char_length"}}
    \cup {Op("=", Func(f, "FLOAT8OID", <<VarInt>>), IntConst("5")) : f \in {"abs", "log"}}
    \cup {Op("=", Func(f, "FLOAT8OID", <<VarInt, IntConst("2")>>), IntConst("5"))
          : f \in {"log", "pow", "mod"}}
    \cup {Op("=", Func(f, "TEXTOID", <<VarText, TextConst(<<"a">>)>>), TextConst(<<"a">>))
          : f \in {"concat", "ltrim", "rtrim", "coalesce"}}
    \cup {Op("=", Func(f, "INT4OID", <<VarText, TextConst(<<"a">>)>>), IntConst("5"))
          : f \in {"position", "strpos"}}
    \cup {Op("=", Func("lpad", "TEXTOID", <<VarText, IntConst("5"), TextConst(<<"a">>)>>),
             TextConst(<<"a">>))}
    \cup {Op("=", Func("substring", "TEXTOID", a), TextConst(<<"a">>))
          : a \in {<<VarText, IntConst("1")>>, <<VarText, IntConst("1"), IntConst("2")>>,
                   <<VarText, VarInt>>, <<VarText, VarInt, IntConst("2")>>,
                   <<VarText, IntConst("1"), VarInt>>, <<VarText, VarInt, VarInt>>,
                   <<VarText, TextConst(<<"a">>)>>}}
    \cup {Op("=", FuncExpr(f[1], f[2], c, "INT4OID", <<VarInt>>), IntConst("5"))
          : f \in {<<"int4", "pg_catalog">>, <<"abs", "pg_catalog">>,
                   <<"myfunc", "public">>},
            c \in CoerceForms}
    \cup {Op("=", FuncExpr("length", "pg_catalog", c, "INT4OID", <<VarText>>), IntConst("5"))
          : c \in CoerceForms}
    \cup {Op("=", Func("lower", "BOOLOID", <<VarText>>), TextConst(<<"a">>))}
    \cup {Op("=", RelabelType(c, VarText), TextConst(<<"a">>)) : c \in CoerceForms}

Atoms == Comparisons \cup Tests \cup Memberships \cup Calls

\* the clauses put under AND and OR
Operands ==
    {Op("=", VarInt, IntConst("5")), VarBool, BooleanTest("IS_NOT_TRUE", VarBool),
     AnyOf(IntArray(<<>>)), AnyOf(IntArray(<<"1", "2", "3">>)),
     Op("=", VarInt, OtherNode("T_SubLink"))}

Connectives ==
    {BoolExpr("NOT_EXPR", <<a>>) : a \in Atoms}
    \cup {BoolExpr(b, <<l, r>>) : b \in {"AND_EXPR", "OR_EXPR"}, l \in Operands,
                                  r \in Operands}
    \cup {BoolExpr("NOT_EXPR", <<BoolExpr(b, <<Op("=", VarInt, IntConst("5")), r>>)>>)
          : b \in {"AND_EXPR", "OR_EXPR"}, r \in Operands}

Clauses == Atoms \cup Connectives

\* baserel->baserestrictinfo
Restrictions ==
    {<<c>> : c \in Clauses} \cup {<<l, r>> : l \in Operands, r \in Operands}

----------------------------------------------------------------------------
(* Planning a scan                                                         *)

\* the clauses sorted without regard to disable_pushdowns
RECURSIVE identifyRemoteConditions_nodisable(_, _, _, _, _, _)
identifyRemoteConditions_nodisable(restrictinfo, i, remote_conds, local_conds, disable_pushdowns, firebird_version) ==
    IF i > Len(restrictinfo)
    THEN [remote_conds |-> remote_conds, local_conds |-> local_conds]
    ELSE IF isFirebirdExpr(restrictinfo[i], firebird_version)
    THEN identifyRemoteConditions_nodisable(restrictinfo, i + 1,
                                            Append(remote_conds, restrictinfo[i]),
                                            local_conds, disable_pushdowns,
                                            firebird_version)
    ELSE identifyRemoteConditions_nodisable(restrictinfo, i + 1, remote_conds,
                                            Append(local_conds, restrictinfo[i]),
                                            disable_pushdowns, firebird_version)

\* identifyRemoteConditions: the clauses of baserestrictinfo from the i-th
\* on, appended to remote_conds or to local_conds
RECURSIVE identifyRemoteConditions(_, _, _, _, _, _)
identifyRemoteConditions(restrictinfo, i, remote_conds, local_conds, disable_pushdowns, firebird_version) ==
    IF i > Len(restrictinfo)
    THEN [remote_conds |-> remote_conds, local_conds |-> local_conds]
    ELSE IF ~disable_pushdowns /\ isFirebirdExpr(restrictinfo[i], firebird_version)
    THEN identifyRemoteConditions(restrictinfo, i + 1,
                                  Append(remote_conds, restrictinfo[i]), local_conds,
                                  disable_pushdowns, firebird_version)
    ELSE identifyRemoteConditions(restrictinfo, i + 1, remote_conds,
                                  Append(local_conds, restrictinfo[i]),
                                  disable_pushdowns, firebird_version)

\* firebirdGetForeignRelSize: the clauses are sorted into remote and local
firebirdGetForeignRelSize ==
    /\ plan = "none"
    /\ LET c == identifyRemoteConditions(baserestrictinfo, 1, <<>>, <<>>,
                                         fdw_state.disable_pushdowns,
                                         fdw_state.firebird_version)
       IN  fdw_state' = [fdw_state EXCEPT !.remote_conds = c.remote_conds,
                                          !.local_conds = c.local_conds]
    /\ plan' = "rel_size"
    /\ UNCHANGED <<baserestrictinfo, column_options, sql, cachevars, targets>>

\* firebirdGetForeignPlan: the WHERE clause of the remote query is built from
\* remote_conds; sql is what follows the select list and the table
firebirdGetForeignPlan ==
    /\ plan = "rel_size"
    /\ \E r \in (IF fdw_state.remote_conds # <<>>
                 THEN buildWhereClause(fdw_state.remote_conds,
                                       Context(fdw_state, column_options))
                 ELSE {Ok(<<>>)}) :
          sql' = r
    /\ plan' = "plan"
    /\ UNCHANGED <<baserestrictinfo, fdw_state, column_options, cachevars, targets>>

\* a scan is planned in a backend that has not yet touched the cache
ConvertInit ==
    /\ CacheInit
    /\ plan = "none"
    /\ sql = NoSql
    /\ rel = NoRel
    /\ attrs_used = {}
    /\ tlist = NoTlist
    /\ \E r \in Restrictions, v \in Versions, i \in BOOLEAN, d \in BOOLEAN, c \in BOOLEAN :
          /\ baserestrictinfo = r
          /\ fdw_state = [NoFdwState EXCEPT !.firebird_version = v,
                                            !.implicit_bool_type = i,
                                            !.disable_pushdowns = d]
          /\ column_options = [implicit_bool_type |-> c]

ConvertNext == firebirdGetForeignRelSize \/ firebirdGetForeignPlan

ConvertSpec == ConvertInit /\ [][ConvertNext]_vars

----------------------------------------------------------------------------
(* Properties of the classifier and the renderer                           *)

\* the nodes directly below a node
Children(node) ==
    IF "args" \in DOMAIN node THEN node.args
    ELSE IF "arg" \in DOMAIN node THEN <<node.arg>>
    ELSE <<>>

\* a node and all the nodes below it
RECURSIVE SubNodes(_)
SubNodes(node) ==
    {node} \cup UNION {SubNodes(Children(node)[i]) : i \in 1..Len(Children(node))}

\* the clauses have been sorted into remote_conds and local_conds
Classified == plan # "none"

\* the clauses of a list
Range(l) == {l[i] : i \in 1..Len(l)}

\* what convertExpr may give for a clause in the context of the scan
Rendered(clause) == convertExpr(clause, Context(fdw_state, column_options))

\* C14: every clause the classifier accepted is converted by convertExpr
\* without an error, and the conversion yields a non-empty text.
C14_AcceptedClauseConverts ==
    Classified =>
        \A clause \in Range(fdw_state.remote_conds) :
            \A r \in Rendered(clause) : r.st = "ok" /\ r.text # <<>>

\* a function outside pg_catalog, a user-defined operator, a subquery, or a
\* relabel that is not implicit
Undelegable(node) ==
    \/ node.tag = "T_FuncExpr" /\ node.pronamespace # "pg_catalog"
    \/ node.tag \in {"T_OpExpr", "T_DistinctExpr"}
       /\ (~node.builtin \/ node.oprnamespace # "pg_catalog")
    \/ node.tag = "T_ScalarArrayOpExpr" /\ ~node.builtin
    \/ node.tag = "T_SubLink"
    \/ node.tag = "T_RelabelType" /\ node.relabelformat # "COERCE_IMPLICIT_CAST"

\* C15: a clause that contains a function outside pg_catalog (whatever its
\* coercion form), a user-defined operator, a subquery or a non-implicit
\* relabel is never classified as remote.
C15_UndelegableNodesStayLocal ==
    Classified =>
        \A clause \in Range(fdw_state.remote_conds) :
            \A node \in SubNodes(clause) : ~Undelegable(node)

\* C16: a set-membership test in a remote clause is "= ANY" or "<> ALL", its
\* right-hand argument is a constant array, the type of its left operand is
\* convertible and its left operand is itself accepted.
C16_MembershipNeedsConstantArray ==
    Classified =>
        \A clause \in Range(fdw_state.remote_conds) :
            \A node \in SubNodes(clause) :
                node.tag = "T_ScalarArrayOpExpr" =>
                    /\ \/ node.oprname = "=" /\ node.useOr
                       \/ node.oprname = "<>" /\ ~node.useOr
                    /\ node.args[2].tag = "T_Const"
                    /\ "elems" \in DOMAIN node.args[2]
                    /\ canConvertPgType(node.oprleft)
                    /\ foreign_expr_walker(node.args[1], fdw_state.firebird_version)

\* a set-membership test over a constant array with no elements
EmptyMembership(node) ==
    /\ node.tag = "T_ScalarArrayOpExpr"
    /\ node.args[2].tag = "T_Const"
    /\ "elems" \in DOMAIN node.args[2]
    /\ node.args[2].elems = <<>>

\* the remote clauses hold a set-membership test over an empty array
HasEmptyMembership ==
    \E clause \in Range(fdw_state.remote_conds) :
        \E node \in SubNodes(clause) : EmptyMembership(node)

\* the text holds "()" or bytes that were never written
EmptyParentheses(text) ==
    \/ \E i \in 1..(Len(text) - 1) : text[i] = "(" /\ text[i + 1] = ")"
    \/ \E i \in 1..Len(text) : text[i] = Garbage

\* C17: a set-membership test over an empty constant array is rendered as no
\* text, and the statement built from clauses that hold one, at the top level
\* or under AND, OR or NOT, is built and holds no "IN ()" and no empty "()".
C17_EmptyArrayLeavesNoFragment ==
    /\ Classified =>
          \A clause \in Range(fdw_state.remote_conds) :
              \A node \in SubNodes(clause) :
                  EmptyMembership(node) =>
                      convertExprRecursor(node, Context(fdw_state, column_options))
                          = {Unset}
    /\ plan = "plan" /\ HasEmptyMembership =>
          sql.st = "ok" /\ ~EmptyParentheses(sql.text)

\* the column B1 is in implicit-boolean mode: the server option is set and
\* the remote has no BOOLEAN type or the column option is set
ImplicitColumn ==
    /\ fdw_state.implicit_bool_type
    /\ (fdw_state.firebird_version < 30000 \/ column_options.implicit_bool_type)

\* the integer forms of the four tests of truth over a column named c
IntegerForm(booltesttype, c) ==
    CASE booltesttype = "IS_TRUE" -> <<"(", c, " <> 0", ")">>
      [] booltesttype = "IS_FALSE" -> <<"(", c, " = 0", ")">>
      [] booltesttype = "IS_NOT_TRUE" ->
            <<"(", c, " = 0", ")", " OR ", "(", c, " IS NULL", ")">>
      [] booltesttype = "IS_NOT_FALSE" ->
            <<"(", c, " <> 0", ")", " OR ", "(", c, " IS NULL", ")">>

\* a test of truth over the column B1
TruthTest(node) ==
    /\ node.tag = "T_BooleanTest"
    /\ node.booltesttype \in {"IS_TRUE", "IS_FALSE", "IS_NOT_TRUE", "IS_NOT_FALSE"}
    /\ node.arg = VarBool

\* C18: for a column in implicit-boolean mode IS NOT TRUE renders as
\* (c = 0) OR (c IS NULL), IS NOT FALSE as (c <> 0) OR (c IS NULL), IS TRUE
\* as (c <> 0) and IS FALSE as (c = 0), with c the bare column name; so wherever
\* the test stands in a remote clause, and in the statement built from it.
C18_ImplicitBooleanTests ==
    /\ Classified /\ ImplicitColumn =>
          \A clause \in Range(fdw_state.remote_conds) :
              \A node \in SubNodes(clause) :
                  TruthTest(node) =>
                      convertExprRecursor(node, Context(fdw_state, column_options))
                          = {Ok(IntegerForm(node.booltesttype, "B1"))}
    /\ plan = "plan" /\ ImplicitColumn /\ Len(fdw_state.remote_conds) = 1
       /\ TruthTest(fdw_state.remote_conds[1]) =>
          sql = Ok(<<" WHERE ", "(">>
                   \o IntegerForm(fdw_state.remote_conds[1].booltesttype, "B1")
                   \o <<")">>)

\* the statement for "B1 IS NOT TRUE" is built for a Firebird 3 server with
\* the column option set
C18_Witness ==
    /\ plan = "plan"
    /\ ImplicitColumn
    /\ fdw_state.firebird_version >= 30000
    /\ fdw_state.remote_conds = <<BooleanTest("IS_NOT_TRUE", VarBool)>>
    /\ sql = Ok(<<" WHERE ", "(", "(", "B1", " = 0", ")", " OR ", "(", "B1", " IS NULL",
                  ")", ")">>)

\* the number of "(" less the number of ")" among the first i pieces of text
RECURSIVE Depth(_, _)
Depth(text, i) ==
    IF i = 0 THEN 0
    ELSE Depth(text, i - 1)
         + (CASE text[i] = "(" -> 1 [] text[i] = ")" -> -1 [] OTHER -> 0)

\* the text is enclosed in one pair of parentheses: it opens with "(" and that
\* parenthesis is closed by the last piece only
Enclosed(text) ==
    /\ Len(text) >= 2
    /\ text[1] = "("
    /\ text[Len(text)] = ")"
    /\ \A i \in 1..(Len(text) - 1) : Depth(text, i) > 0
    /\ Depth(text, Len(text)) = 0

\* the nodes rendered as composite fragments
Composite ==
    {"T_BoolExpr", "T_OpExpr", "T_NullTest", "T_BooleanTest", "T_ScalarArrayOpExpr"}

\* C19: the text the renderer returns for a boolean connective, a NOT, an
\* operator application, a null test, a boolean test or a set-membership test
\* of a remote clause is enclosed in one outer pair of parentheses.
C19_CompositeFragmentsEnclosed ==
    Classified =>
        \A clause \in Range(fdw_state.remote_conds) :
            \A node \in SubNodes(clause) :
                node.tag \in Composite =>
                    \A r \in convertExprRecursor(node, Context(fdw_state, column_options)) :
                        r.st = "ok" => Enclosed(r.text)

\* s with every single quote doubled and every other character unchanged
RECURSIVE QuotesDoubled(_)
QuotesDoubled(s) ==
    IF s = <<>> THEN <<>>
    ELSE (IF Head(s) = "'" THEN <<"'", "'">> ELSE <<Head(s)>>) \o QuotesDoubled(Tail(s))

\* the quoted token for the string s
QuotedToken(s) == <<"'">> \o QuotesDoubled(s) \o <<"'">>

\* a literal of a string type that is no array
StringConst(node) ==
    /\ node.tag = "T_Const"
    /\ node.consttype = "TEXTOID"
    /\ ~node.constisnull
    /\ "elems" \notin DOMAIN node

\* a set-membership test over a constant array of strings
StringMembership(node) ==
    /\ node.tag = "T_ScalarArrayOpExpr"
    /\ node.oprleft = "TEXTOID"
    /\ node.args[2].tag = "T_Const"
    /\ "elems" \in DOMAIN node.args[2]

\* C20: a string s is rendered as a quote, s with each quote doubled and each
\* other character unchanged, and a quote, the same as a scalar literal
\* (convertConst) and as an element of an IN list (convertDatum).
C20_StringsQuotedAlike ==
    Classified =>
        \A clause \in Range(fdw_state.remote_conds) :
            \A node \in SubNodes(clause) :
                /\ StringConst(node) =>
                      /\ convertConst(node, Context(fdw_state, column_options))
                             = Ok(QuotedToken(node.extval))
                      /\ convertConst(node, Context(fdw_state, column_options))
                             = convertDatum(node.extval, node.consttype)
                /\ StringMembership(node) =>
                      \A i \in 1..Len(node.args[2].elems) :
                          ~node.args[2].elems[i].isnull =>
                              convertDatum(node.args[2].elems[i].val, node.oprleft)
                                  = Ok(QuotedToken(node.args[2].elems[i].val))

----------------------------------------------------------------------------
(* convertTargetList and convertReturningList, for the table with the      *)
(* attributes C1 integer, B1 boolean, T1 text and A1 integer[].            *)

\* atttypid of the attributes of the tuple descriptor
AttTypes == <<"INT4OID", "BOOLOID", "TEXTOID", "INT4ARRAYOID">>

\* 0 - FirstLowInvalidHeapAttributeNumber in attrs_used: a whole-row reference
WholeRow == 0

SelfItemPointerAttributeNumber == -1

\* another system attribute (tableoid)
TableOidAttributeNumber == -6

\* the text convertTargetList emits for the attribute i
TargetColumn(i, for_select, firebird_version, use_implicit_bool_type, colopts) ==
    IF use_implicit_bool_type /\ AttTypes[i] = "BOOLOID"
       /\ i = ColumnBool /\ colopts.implicit_bool_type
    THEN IF firebird_version >= 30000 THEN <<ColumnName(i), " <> 0">>
         ELSE IF for_select
         THEN <<"CASE WHEN ", ColumnName(i), " <> 0 THEN 1 ELSE ", ColumnName(i),
                " END AS ", ColumnName(i)>>
         ELSE <<ColumnName(i)>>
    ELSE <<ColumnName(i)>>

\* convertTargetList: the loop over the attributes from the i-th on; t holds
\* buf, retrieved_attrs and first
RECURSIVE TargetColumns(_, _, _, _, _, _, _, _)
TargetColumns(i, t, r, attrs, for_select, firebird_version, use_implicit_bool_type, colopts) ==
    IF i > Len(r.attisdropped) THEN t
    ELSE IF r.attisdropped[i] THEN
        TargetColumns(i + 1, t, r, attrs, for_select, firebird_version,
                      use_implicit_bool_type, colopts)
    ELSE IF WholeRow \in attrs \/ i \in attrs THEN
        TargetColumns(i + 1,
                      [buf |-> t.buf \o (IF t.first THEN <<>> ELSE <<", ">>)
                                     \o TargetColumn(i, for_select, firebird_version,
                                                     use_implicit_bool_type, colopts),
                       retrieved_attrs |-> Append(t.retrieved_attrs, i),
                       first |-> FALSE],
                      r, attrs, for_select, firebird_version, use_implicit_bool_type,
                      colopts)
    ELSE TargetColumns(i + 1, t, r, attrs, for_select, firebird_version,
                       use_implicit_bool_type, colopts)

\* a target list that leaves out the row identity
convertTargetList_nokey(r, attrs, for_select, firebird_version, use_implicit_bool_type, colopts) ==
    LET t == TargetColumns(1, [buf |-> <<>>, retrieved_attrs |-> <<>>, first |-> TRUE],
                           r, attrs, for_select, firebird_version,
                           use_implicit_bool_type, colopts)
    IN  [buf |-> IF t.first THEN <<"NULL">> ELSE t.buf,
         retrieved_attrs |-> t.retrieved_attrs,
         db_key_used |-> FALSE]

convertTargetList(r, attrs, for_select, firebird_version, use_implicit_bool_type, colopts) ==
    LET t == TargetColumns(1, [buf |-> <<>>, retrieved_attrs |-> <<>>, first |-> TRUE],
                           r, attrs, for_select, firebird_version,
                           use_implicit_bool_type, colopts)
        key == SelfItemPointerAttributeNumber \in attrs
        u == IF key
             THEN [buf |-> t.buf \o (IF t.first THEN <<>> ELSE <<", ">>) \o <<"rdb$db_key">>,
                   retrieved_attrs |-> Append(t.retrieved_attrs,
                                              SelfItemPointerAttributeNumber),
                   first |-> FALSE]
             ELSE t
    IN  [buf |-> IF u.first THEN u.buf \o <<"NULL">> ELSE u.buf,
         retrieved_attrs |-> u.retrieved_attrs,
         db_key_used |-> key]

\* convertReturningList: attrs holds the attributes of returningList
convertReturningList(r, attrs, firebird_version, use_implicit_bool_type, colopts) ==
    LET used == (IF r.trig_insert_after_row THEN {WholeRow} ELSE {}) \cup attrs
    IN  IF used # {}
        THEN LET t == convertTargetList(r, used, FALSE, firebird_version,
                                        use_implicit_bool_type, colopts)
             IN  [t EXCEPT !.buf = <<" RETURNING ">> \o t.buf]
        ELSE [buf |-> <<>>, retrieved_attrs |-> <<>>, db_key_used |-> FALSE]

\* buildSelectSql: the SELECT list
buildSelectSql ==
    /\ tlist.kind = "none"
    /\ LET t == convertTargetList(rel, attrs_used, TRUE, fdw_state.firebird_version,
                                  fdw_state.implicit_bool_type, column_options)
       IN  tlist' = [kind |-> "select", buf |-> <<"SELECT ">> \o t.buf \o <<" FROM ">>,
                     retrieved_attrs |-> t.retrieved_attrs,
                     db_key_used |-> t.db_key_used]
    /\ UNCHANGED <<rel, attrs_used, cachevars, planner>>

\* buildInsertSql, buildUpdateSql, buildDeleteSql: the RETURNING clause
buildReturning ==
    /\ tlist.kind = "none"
    /\ LET t == convertReturningList(rel, attrs_used, fdw_state.firebird_version,
                                     fdw_state.implicit_bool_type, column_options)
       IN  tlist' = [kind |-> "returning", buf |-> t.buf,
                     retrieved_attrs |-> t.retrieved_attrs,
                     db_key_used |-> t.db_key_used]
    /\ UNCHANGED <<rel, attrs_used, cachevars, planner>>

\* the attribute numbers a statement may refer to
AttrNumbers ==
    {TableOidAttributeNumber, SelfItemPointerAttributeNumber, WholeRow}
    \cup (1..Len(AttTypes))

\* a statement over the table is planned in a backend that has not yet
\* touched the cache
TargetInit ==
    /\ CacheInit
    /\ baserestrictinfo = <<>>
    /\ plan = "none"
    /\ sql = NoSql
    /\ tlist = NoTlist
    /\ \E v \in Versions, i \in BOOLEAN, c \in BOOLEAN :
          /\ fdw_state = [NoFdwState EXCEPT !.firebird_version = v,
                                            !.implicit_bool_type = i]
          /\ column_options = [implicit_bool_type |-> c]
    /\ \E d \in [1..Len(AttTypes) -> BOOLEAN], g \in BOOLEAN :
          rel = [attisdropped |-> d, trig_insert_after_row |-> g]
    /\ attrs_used \in SUBSET AttrNumbers

TargetNext == buildSelectSql \/ buildReturning

TargetSpec == TargetInit /\ [][TargetNext]_vars

----------------------------------------------------------------------------
(* Properties of the target list                                           *)

\* the list of result columns in the text of a target list
ListPart(t) ==
    IF t.kind = "select" THEN SubSeq(t.buf, 2, Len(t.buf) - 1)
    ELSE IF t.buf = <<>> THEN <<>>
    ELSE Tail(t.buf)

\* the result columns of a list: the pieces between the separators
RECURSIVE ResultColumns(_)
ResultColumns(list) ==
    IF list = <<>> THEN <<>>
    ELSE IF \E i \in 1..Len(list) : list[i] = ", "
    THEN LET i == CHOOSE j \in 1..Len(list) :
                      list[j] = ", " /\ \A k \in 1..(j - 1) : list[k] # ", "
         IN  <<SubSeq(list, 1, i - 1)>> \o ResultColumns(SubSeq(list, i + 1, Len(list)))
    ELSE <<list>>

\* the result column is made from the attribute a
NamesAttribute(column, a) ==
    \E i \in 1..Len(column) :
        column[i] = (IF a = SelfItemPointerAttributeNumber THEN "rdb$db_key"
                     ELSE ColumnName(a))

\* the attributes the statement refers to
Referenced ==
    IF tlist.kind = "returning" /\ rel.trig_insert_after_row
    THEN attrs_used \cup {WholeRow}
    ELSE attrs_used

\* the attributes of S in ascending order
RECURSIVE Ascending(_)
Ascending(S) ==
    IF S = {} THEN <<>>
    ELSE LET m == CHOOSE x \in S : \A y \in S : x <= y
         IN  <<m>> \o Ascending(S \ {m})

\* the referenced attributes that are not dropped, in ascending order, and
\* then the row identity if it is referenced
ExpectedAttrs ==
    Ascending({i \in 1..Len(rel.attisdropped) :
                   ~rel.attisdropped[i] /\ (WholeRow \in Referenced \/ i \in Referenced)})
    \o (IF SelfItemPointerAttributeNumber \in Referenced
        THEN <<SelfItemPointerAttributeNumber>> ELSE <<>>)

\* every entry of retrieved_attrs is the attribute of the result column at
\* its place
EntriesMatchColumns ==
    LET columns == ResultColumns(ListPart(tlist))
    IN  \A i \in 1..Len(tlist.retrieved_attrs) :
            i <= Len(columns) /\ NamesAttribute(columns[i], tlist.retrieved_attrs[i])

\* C21 as stated: the retrieved-attribute list has exactly one entry per
\* result column of the text, in the same order: the referenced attributes
\* that are not dropped in ascending order, then rdb$db_key last if and only
\* if it was requested.
C21_OneEntryPerResultColumn ==
    tlist.kind # "none" =>
        /\ Len(ResultColumns(ListPart(tlist))) = Len(tlist.retrieved_attrs)
        /\ EntriesMatchColumns
        /\ tlist.retrieved_attrs = ExpectedAttrs
        /\ tlist.db_key_used = (SelfItemPointerAttributeNumber \in Referenced)

\* C21 (amended): as above, except that a target list with no attribute to
\* retrieve is the single result column NULL (or, for RETURNING without
\* references, no clause at all) with an empty retrieved-attribute list.
C21_OneEntryPerRetrievedColumn ==
    tlist.kind # "none" =>
        /\ IF tlist.retrieved_attrs = <<>>
           THEN ListPart(tlist) \in {<<"NULL">>, <<>>}
           ELSE Len(ResultColumns(ListPart(tlist))) = Len(tlist.retrieved_attrs)
        /\ EntriesMatchColumns
        /\ tlist.retrieved_attrs = ExpectedAttrs
        /\ tlist.db_key_used = (SelfItemPointerAttributeNumber \in Referenced)

\* a SELECT list over C1, the implicit boolean B1 (dropped T1 left out) and
\* the row identity
C21_Witness ==
    /\ tlist.kind = "select"
    /\ rel.attisdropped = <<FALSE, FALSE, TRUE, FALSE>>
    /\ attrs_used = {SelfItemPointerAttributeNumber, 1, 2, 3}
    /\ tlist.retrieved_attrs = <<1, 2, SelfItemPointerAttributeNumber>>
    /\ tlist.buf = <<"SELECT ", "C1", ", ", "B1", " <> 0", ", ", "rdb$db_key", " FROM ">>

----------------------------------------------------------------------------
(* Further properties of the classifier and the renderer                   *)

\* the keywords of the remote BOOLEAN type
NativeKeywords == {"true", "false", "TRUE", "FALSE", " IS TRUE", " IS FALSE"}

HasNativeKeyword(text) == \E i \in 1..Len(text) : text[i] \in NativeKeywords

\* a comparison or a test with the column B1 as an operand
InvolvesColumn(node) ==
    /\ node.tag \in {"T_OpExpr", "T_BooleanTest"}
    /\ VarBool \in Range(Children(node))

\* C22: while the column is in implicit-boolean mode every comparison with it
\* in a remote clause is rendered, and rendered without a keyword of the
\* remote BOOLEAN type (a boolean literal as 0 or 1, a test as an integer
\* comparison); such keywords are rendered only for a remote version that has
\* the type and with the mode inactive.
C22_ImplicitBooleanConsistent ==
    Classified =>
        \A clause \in Range(fdw_state.remote_conds) :
            \A node \in SubNodes(clause) :
                InvolvesColumn(node) =>
                    \A r \in convertExprRecursor(node, Context(fdw_state, column_options)) :
                        /\ ImplicitColumn => r.st = "ok" /\ ~HasNativeKeyword(r.text)
                        /\ r.st = "ok" /\ HasNativeKeyword(r.text) =>
                              fdw_state.firebird_version >= 30000 /\ ~ImplicitColumn

\* the least remote version the walker asks for before it lets the function
\* through, 0 for a function without one
MinVersion(proname) ==
    CASE proname \in {"concat", "coalesce"} -> 10500
      [] proname \in Functions20 \cup {"substring"} -> 20000
      [] proname \in Functions21 -> 20100
      [] proname \in Functions25 -> 20500
      [] OTHER -> 0

\* C23: a remote clause holds no application of a function or operator whose
\* least remote version is above the version of the server: concat and
\* coalesce from 1.5, bit_length ... substring from 2.0, the 2.1 functions and
\* << and >> from 2.1, lpad and rpad from 2.5.
C23_VersionGating ==
    Classified =>
        \A clause \in Range(fdw_state.remote_conds) :
            \A node \in SubNodes(clause) :
                /\ node.tag = "T_FuncExpr" =>
                      fdw_state.firebird_version >= MinVersion(node.proname)
                /\ node.tag = "T_OpExpr" /\ node.oprname \in {"<<", ">>"} =>
                      fdw_state.firebird_version >= 20100

\* a literal of type int4
IntegerLiteral(node) ==
    node.tag = "T_Const" /\ node.consttype = "INT4OID" /\ ~node.constisnull

\* C24: a call of substring in a remote clause has two or three arguments, and
\* its second and, when present, its third argument are both int4 literals.
C24_SubstringIntegerArguments ==
    Classified =>
        \A clause \in Range(fdw_state.remote_conds) :
            \A node \in SubNodes(clause) :
                node.tag = "T_FuncExpr" /\ node.proname = "substring" =>
                    /\ Len(node.args) \in {2, 3}
                    /\ IntegerLiteral(node.args[2])
                    /\ Len(node.args) = 3 => IntegerLiteral(node.args[3])

\* the clause may be sent to the remote server
Pushable(clause) ==
    ~fdw_state.disable_pushdowns /\ isFirebirdExpr(clause, fdw_state.firebird_version)

NotPushable(clause) == ~Pushable(clause)

\* C25: remote_conds holds, in the order of baserestrictinfo, the clauses that
\* the classifier accepts while pushdowns are not disabled, and local_conds
\* the others in that order; with disable_pushdowns remote_conds is empty and
\* the statement gets no WHERE clause.
C25_ClausesPartitioned ==
    /\ Classified =>
          /\ fdw_state.remote_conds = SelectSeq(baserestrictinfo, Pushable)
          /\ fdw_state.local_conds = SelectSeq(baserestrictinfo, NotPushable)
          /\ Len(fdw_state.remote_conds) + Len(fdw_state.local_conds)
                 = Len(baserestrictinfo)
    /\ Classified /\ fdw_state.disable_pushdowns => fdw_state.remote_conds = <<>>
    /\ plan = "plan" /\ fdw_state.disable_pushdowns => sql = Ok(<<>>)

\* two clauses, the first kept local and the second sent, and two acceptable
\* clauses kept local by disable_pushdowns
C25_Witness ==
    /\ plan = "plan"
    /\ Len(baserestrictinfo) = 2
    /\ \/ /\ ~fdw_state.disable_pushdowns
          /\ fdw_state.local_conds = <<baserestrictinfo[1]>>
          /\ fdw_state.remote_conds = <<baserestrictinfo[2]>>
          /\ sql.st = "ok" /\ sql.text # <<>>
       \/ /\ fdw_state.disable_pushdowns
          /\ isFirebirdExpr(baserestrictinfo[1], fdw_state.firebird_version)
          /\ fdw_state.local_conds = baserestrictinfo
          /\ sql = Ok(<<>>)

----------------------------------------------------------------------------
(* C26 *)

\* the step is a successful acquire of key k
Acquired(k) == last'.op = "acquire" /\ last'.key = k /\ last'.err = "none"

\* the entry of key k carries have_error
HasError(c, k) == c[k].found /\ c[k].have_error

\* C26: have_error of an entry is false when a local transaction starts using
\* the entry (an acquire that finds it with no remote transaction open), and
\* it becomes true only through a subtransaction abort.
C26_HaveErrorTracksAborts ==
    [][\A k \in Keys :
          /\ (Acquired(k) /\ cache[k].xact_depth = 0) => ~HasError(cache', k)
          /\ (HasError(cache', k) /\ ~HasError(cache, k)) => last'.op = "subabort"]_vars

----------------------------------------------------------------------------
(* C27 *)

\* C27: every cache entry with a live handle has xact_depth at most the
\* current local nesting level, and the subtransaction callback never raises
\* "missed cleaning up remote subtransaction".
C27_DepthWithinLevel ==
    /\ \A k \in Keys : Live(cache, k) => cache[k].xact_depth <= level
    /\ last.err # "missed_subxact"

----------------------------------------------------------------------------
(* C28 *)

\* the step is the completed handling of a top-level transaction end
TopLevelEnded == last'.op \in {"precommit", "preprepare", "abort"} /\ last'.err = "none"

\* C28: once the handling of a top-level transaction end (pre-commit,
\* pre-prepare or abort) has completed, no cached live connection has an
\* active remote transaction, and SET TRANSACTION SNAPSHOT is never issued on
\* a connection that already has an active remote transaction.
C28_NoTransactionSurvivesEnd ==
    [][/\ TopLevelEnded =>
            \A k \in Keys :
                Live(cache', k) => ~FQisActiveTransaction(conns', cache'[k].conn)
       /\ \A i \in 1..Len(last'.log) :
            last'.log[i].stmt = "SET TRANSACTION SNAPSHOT" =>
                ~FQisActiveTransaction(conns, last'.log[i].conn)]_vars

----------------------------------------------------------------------------
(* C29 *)

\* the statements of the subtransaction callback that name a savepoint
SavepointOps == {"RELEASE SAVEPOINT", "ROLLBACK TO SAVEPOINT"}

\* C29: every RELEASE SAVEPOINT sK and ROLLBACK TO SAVEPOINT sK issued by the
\* subtransaction callback names a savepoint that a SAVEPOINT sK created on
\* the same physical connection and that has not been released there.
C29_SavepointExists ==
    [][last'.op \in {"subcommit", "subabort"} =>
          \A i \in 1..Len(last'.log) :
              last'.log[i].stmt \in SavepointOps =>
                  SpPos(conns[last'.log[i].conn].sp, last'.log[i].n) > 0]_vars

----------------------------------------------------------------------------
(* C30 *)

\* the entry of key k records a remote transaction as open
RecordedOpen(k) == cache[k].found /\ cache[k].xact_depth >= 1

\* the log holds a successful COMMIT on handle h for key k
CommittedOn(log, k, h) ==
    \E i \in Lines(log, k, "COMMIT") : log[i].conn = h /\ log[i].ok

\* C30: when the pre-commit handling of a local transaction that acquired a
\* connection completes without error, every remote transaction an entry
\* records as open was committed on a connection the entry still holds: none
\* is left open, and none was discarded because its connection was closed by
\* a close-all call or replaced by a reconnect.
C30_CommitReachesEveryTransaction ==
    [][(last'.op = "precommit" /\ last'.err = "none" /\ xact_got_connection) =>
          \A k \in Keys :
              RecordedOpen(k) =>
                  /\ Live(cache, k)
                  /\ FQisActiveTransaction(conns, cache[k].conn)
                  /\ CommittedOn(last'.log, k, cache[k].conn)
                  /\ ~FQisActiveTransaction(conns', cache[k].conn)]_vars

====
